---------------------------- MODULE Spec2Model ----------------------------
(***************************************************************************)
(* Long-form transcription pipeline of whisper-web                         *)
(* (src/server/app/video_transcription.py, class VideoTranscriber).        *)
(*                                                                         *)
(* Time is counted in ticks of 0.1 s, so the thresholds of the source      *)
(* (0.1 s, 0.3 s, 1.0 s, 5.0 s) are the integers 1, 3, 10, 50 and the test *)
(* "overlap > 0.5 * next_duration" is "2 * overlap > next_duration".       *)
(* A text is a sequence of characters, each a string (a non-ASCII          *)
(* character is written by its code point).  A segment object lives        *)
(* in `heap`; lists hold references (indices into heap), as Python lists   *)
(* hold references to TranscriptionSegment objects.                        *)
(***************************************************************************)
EXTENDS Integers, Sequences, FiniteSets, TLC

VARIABLES
    pc,                \* position of the running list function
    heap,              \* the TranscriptionSegment objects, by reference
    segments,          \* the list passed to the function (references)
    sorted_segments,   \* _merge_overlapping_segments: the sorted copy
    current,           \* the local `current` (a reference, 0 for None)
    merged,            \* _merge_overlapping_segments: the list `merged`
    optimized,         \* optimize_segments: the list `optimized`
    parts,             \* _split_long_segment: the list `parts`
    given,             \* the segments as they were when the function was called
    idx,               \* position of the for loop in the list it walks
    branch,            \* which branch the last loop iteration took
    ppc,               \* position of process_audio_segments ("idle": no request)
    segment_duration,  \* self.segment_duration
    overlap_duration,  \* self.overlap_duration
    language,          \* the request's language argument
    total_duration,    \* len(audio) / sample_rate
    segment_start,     \* the local segment_start
    all_segments,      \* the list all_segments (references)
    calls,             \* the transcribe_audio calls made so far, in order
    response,          \* what the request returned, or the error it raised
    cancel_requested,  \* the caller has asked for the request to be cancelled
    instances,         \* TranscriberFactory._instances: instance key -> transcriber
    transcribers,      \* the transcriber objects constructed so far, by reference
    got,               \* what the last get_transcriber call returned or raised
    served,            \* per configuration, the transcriber last returned for it
                       \* since the last clear_instances (None: none)
    sub_call,          \* the subtitle call drawn: class, function and arguments
    sub_result,        \* what that call returned or raised
    is_running,        \* FasterWhisperStream.is_running
    processing_thread, \* self.processing_thread: a worker, or None
    audio_queue,       \* self.audio_queue: chunks and end sentinels, oldest first
    current_segments,  \* self.current_segments
    is_final,          \* self.is_final
    workers,           \* the worker threads started so far: position and buffer
    cpc,               \* where the calling thread is inside a method of the stream
    gpc,               \* where the stream_transcribe generator is
    last_segment_count,\* the local of stream_transcribe
    new_segments,      \* the slice stream_transcribe took and has not yet yielded
    yielded,           \* the segments stream_transcribe has yielded, in order
    put_log,           \* everything put on audio_queue so far, in order
    transcribe_calls,  \* the _transcribe_audio calls so far: worker and chunks
    stop_called,       \* stop_processing has been called
    streams_started,   \* number of stream_transcribe calls so far
    active_connections,     \* main.py active_connections: client_id -> websocket
    streaming_transcribers, \* main.py streaming_transcribers: client_id -> entry
    connections,       \* the /ws/stream handlers started so far, one per websocket
    temp_files,        \* the files that exist in the directory temp
    requests,          \* the POST /transcribe requests made so far
    uuids              \* number of uuid.uuid4() values drawn so far

listVars == << pc, heap, segments, sorted_segments, current, merged, optimized,
              parts, given, idx, branch >>

pipeVars == << ppc, segment_duration, overlap_duration, language, total_duration,
               segment_start, all_segments, calls, response, cancel_requested >>

factoryVars == << instances, transcribers, got, served >>

subVars == << sub_call, sub_result >>

streamVars == << is_running, processing_thread, audio_queue, current_segments, is_final,
                workers, cpc, gpc, last_segment_count, new_segments, yielded, put_log,
                transcribe_calls, stop_called, streams_started >>

appVars == << active_connections, streaming_transcribers, connections, temp_files,
             requests, uuids >>

otherVars == << factoryVars, subVars, streamVars, appVars >>

\* everything but the variables of one part
notFactoryVars == << listVars, pipeVars, subVars, streamVars, appVars >>

notSubVars == << listVars, pipeVars, factoryVars, streamVars, appVars >>

notStreamVars == << listVars, pipeVars, factoryVars, subVars, appVars >>

notAppVars == << listVars, pipeVars, factoryVars, subVars, streamVars >>

vars == << listVars, pipeVars, otherVars >>

(***************************** bounds ***************************************)
MaxT == 2          \* segment times of the drawn inputs range over 0..MaxT
MaxSegs == 3       \* longest drawn input list
MaxTotal == 4      \* longest audio, in ticks
MaxSegmentDuration == 3   \* largest segment_duration a transcriber is built with
MaxOptSegs == 3    \* longest list drawn for optimize_segments
MaxTranscribers == 3   \* most transcriber objects constructed
MaxCues == 2       \* longest segment list drawn for generate_subtitles
MaxChunks == 2     \* most audio chunks put on the queue of a stream
MaxWorkers == 2    \* most worker threads started by a stream
MaxFinalizes == 1  \* most finalize() calls on a stream
MaxStreams == 1    \* most stream_transcribe calls on a stream
MaxUploads == 2    \* most POST /transcribe requests
MaxConnections == 2 \* most /ws/stream connections made
MaxMessages == 2   \* most messages received over all connections together

(************************** program constants ******************************)
WORD_TOLERANCE == 1     \* 0.1 s
MIN_DURATION == 10      \* 1.0 s
MAX_DURATION == 50      \* 5.0 s
MERGE_GAP == 3          \* 0.3 s

(***************************** helpers **************************************)
Max(a, b) == IF a >= b THEN a ELSE b
Min(a, b) == IF a <= b THEN a ELSE b
Abs(a) == IF a >= 0 THEN a ELSE 0 - a

None == 0

\* what a request has produced so far
Returned(refs) == [kind |-> "returned", segments |-> refs, error |-> "none"]
Raised(e) == [kind |-> "raised", segments |-> << >>, error |-> e]
Pending == [kind |-> "pending", segments |-> << >>, error |-> "none"]

\* seq[1..n] for a sequence of references
Deref(h, refs) == [k \in 1..Len(refs) |-> h[refs[k]]]

\* Python's `s in t` on strings: s occurs in t as a contiguous substring
IsSubstring(s, t) ==
    \E k \in 0..(Len(t) - Len(s)) : SubSeq(t, k + 1, k + Len(s)) = s

\* sorted(segments, key=lambda s: s.start): a stable sort, as an insertion
\* sort that places each element after the elements whose key is <= its own
InsertByStart(h, refs, r) ==
    LET before == {k \in 1..Len(refs) : h[refs[k]].start <= h[r].start}
        n == Cardinality(before)
    IN  SubSeq(refs, 1, n) \o << r >> \o SubSeq(refs, n + 1, Len(refs))

\* the list left in the order it was given
KeptOrder(h, refs) == refs

RECURSIVE SortedByStart(_, _)
SortedByStart(h, refs) ==
    IF refs = << >> THEN << >>
    ELSE InsertByStart(h, SortedByStart(h, SubSeq(refs, 1, Len(refs) - 1)),
                       refs[Len(refs)])

(******************** _merge_overlapping_segments **************************)
\* the test of line 525
Overlaps(cur, nxt) == cur.end >= nxt.start

\* an overlap of exactly half of next counted as large
OverlapAtLeastHalf(cur, nxt) ==
    2 * (cur.end - nxt.start) >= (nxt.end - nxt.start)

\* the test of lines 527-530
OverlapExceedsHalf(cur, nxt) ==
    2 * (cur.end - nxt.start) > (nxt.end - nxt.start)

\* the end taken from next alone (current.end = next_segment.end)
MergedEndOfNext(cur, nxt) == nxt.end

\* line 532
MergedEnd(cur, nxt) == Max(cur.end, nxt.end)

\* lines 535-536
MergedText(cur, nxt) ==
    IF ~IsSubstring(nxt.text, cur.text)
    THEN cur.text \o << " " >> \o nxt.text
    ELSE cur.text

\* the duplicate test without its time tolerance
IsDuplicateWordByText(curWords, word) ==
    \E k \in 1..Len(curWords) : curWords[k].word = word.word

\* the condition of line 541, for one word of next
IsDuplicateWord(curWords, word) ==
    \E k \in 1..Len(curWords) :
        /\ curWords[k].word = word.word
        /\ Abs(curWords[k].start - word.start) < WORD_TOLERANCE

\* lines 539-542
RECURSIVE NewWords(_, _)
NewWords(curWords, nextWords) ==
    IF nextWords = << >> THEN << >>
    ELSE (IF IsDuplicateWord(curWords, Head(nextWords))
          THEN << >> ELSE << Head(nextWords) >>)
         \o NewWords(curWords, Tail(nextWords))

MergedWords(cur, nxt) == cur.words \o NewWords(cur.words, nxt.words)

\* lines 532-542: `current` after next_segment was merged into it
MergeInto(cur, nxt) ==
    [cur EXCEPT !.end = MergedEnd(cur, nxt),
                !.text = MergedText(cur, nxt),
                !.words = MergedWords(cur, nxt)]

\* the ids counted from 1 (enumerate(merged, 1))
ReassignIdsFromOne(h, refs) ==
    [r \in 1..Len(h) |->
        IF \E k \in 1..Len(refs) : refs[k] = r
        THEN [h[r] EXCEPT !.id = CHOOSE k \in 1..Len(refs) : refs[k] = r]
        ELSE h[r]]

\* lines 556-557
ReassignIds(h, refs) ==
    [r \in 1..Len(h) |->
        IF \E k \in 1..Len(refs) : refs[k] = r
        THEN [h[r] EXCEPT !.id = (CHOOSE k \in 1..Len(refs) : refs[k] = r) - 1]
        ELSE h[r]]

\* lines 514-515
MergeEmpty ==
    /\ pc = "merge_call"
    /\ segments = << >>
    /\ pc' = "merge_done"
    /\ merged' = << >>
    /\ UNCHANGED << heap, segments, sorted_segments, current, idx, branch >>
    /\ UNCHANGED << optimized, parts, given >>
    /\ UNCHANGED pipeVars
    /\ UNCHANGED otherVars

\* lines 518-521
MergeSort ==
    /\ pc = "merge_call"
    /\ segments # << >>
    /\ sorted_segments' = SortedByStart(heap, segments)
    /\ merged' = << >>
    /\ current' = sorted_segments'[1]
    /\ idx' = 2
    /\ pc' = "merge_loop"
    /\ UNCHANGED << heap, segments, branch >>
    /\ UNCHANGED << optimized, parts, given >>
    /\ UNCHANGED pipeVars
    /\ UNCHANGED otherVars

\* lines 525-542: one iteration of the loop, merge branch
MergeLoopMerge ==
    /\ pc = "merge_loop"
    /\ idx <= Len(sorted_segments)
    /\ LET next_segment == sorted_segments[idx] IN
        /\ Overlaps(heap[current], heap[next_segment])
        /\ OverlapExceedsHalf(heap[current], heap[next_segment])
        /\ heap' = [heap EXCEPT ![current] = MergeInto(heap[current], heap[next_segment])]
    /\ idx' = idx + 1
    /\ branch' = "merge"
    /\ UNCHANGED << pc, segments, sorted_segments, current, merged >>
    /\ UNCHANGED << optimized, parts, given >>
    /\ UNCHANGED pipeVars
    /\ UNCHANGED otherVars

\* lines 543-546: overlap of at most half of next, flush
MergeLoopSmallOverlap ==
    /\ pc = "merge_loop"
    /\ idx <= Len(sorted_segments)
    /\ LET next_segment == sorted_segments[idx] IN
        /\ Overlaps(heap[current], heap[next_segment])
        /\ ~OverlapExceedsHalf(heap[current], heap[next_segment])
        /\ merged' = Append(merged, current)
        /\ current' = next_segment
    /\ idx' = idx + 1
    /\ branch' = "small_overlap"
    /\ UNCHANGED << pc, heap, segments, sorted_segments >>
    /\ UNCHANGED << optimized, parts, given >>
    /\ UNCHANGED pipeVars
    /\ UNCHANGED otherVars

\* lines 547-550: no overlap, flush
MergeLoopNoOverlap ==
    /\ pc = "merge_loop"
    /\ idx <= Len(sorted_segments)
    /\ LET next_segment == sorted_segments[idx] IN
        /\ ~Overlaps(heap[current], heap[next_segment])
        /\ merged' = Append(merged, current)
        /\ current' = next_segment
    /\ idx' = idx + 1
    /\ branch' = "no_overlap"
    /\ UNCHANGED << pc, heap, segments, sorted_segments >>
    /\ UNCHANGED << optimized, parts, given >>
    /\ UNCHANGED pipeVars
    /\ UNCHANGED otherVars

\* lines 552-559
MergeReturn ==
    /\ pc = "merge_loop"
    /\ idx > Len(sorted_segments)
    /\ merged' = Append(merged, current)
    /\ heap' = ReassignIds(heap, merged')
    /\ pc' = "merge_done"
    /\ UNCHANGED << segments, sorted_segments, current, idx, branch >>
    /\ UNCHANGED << optimized, parts, given >>
    /\ UNCHANGED pipeVars
    /\ UNCHANGED otherVars

MergeNext ==
    \/ MergeEmpty
    \/ MergeSort
    \/ MergeLoopMerge
    \/ MergeLoopSmallOverlap
    \/ MergeLoopNoOverlap
    \/ MergeReturn

\* the list the function returned
MergeResult == Deref(heap, merged)

(*********************** inputs of the list functions **********************)
TextPool == { << "a" >>, << "b" >> }

\* a segment with one word that spans it and carries its text
OneWordSegment(s, e, t) ==
    [id |-> 0, start |-> s, end |-> e, text |-> t,
     words |-> << [word |-> t, start |-> s, end |-> e] >>]

SegmentPool ==
    { OneWordSegment(s, e, t) : s \in 0..MaxT, e \in 0..MaxT, t \in TextPool }

\* a segment with two words that share its span
TwoWordSegment(s, e, t1, t2) ==
    [id |-> 0, start |-> s, end |-> e, text |-> t1 \o << " " >> \o t2,
     words |-> << [word |-> t1, start |-> s, end |-> (s + e) \div 2],
                  [word |-> t2, start |-> (s + e) \div 2, end |-> e] >>]

TwoWordPool ==
    { TwoWordSegment(s, e, t1, t2) :
        s \in 0..MaxT, e \in 0..MaxT, t1 \in TextPool, t2 \in TextPool }

WellFormedPool == { sg \in SegmentPool : sg.start <= sg.end }

WellFormedTwoWordPool == { sg \in TwoWordPool : sg.start <= sg.end }

\* the characters of "hello world" and of "hello world there"
HelloWorld == << "h", "e", "l", "l", "o", " ", "w", "o", "r", "l", "d" >>

HelloWorldThere == HelloWorld \o << " ", "t", "h", "e", "r", "e" >>

\* the same speech heard in two consecutive windows: [8.0, 9.5] "hello
\* world" from one window and [8.3, 9.8] "hello world there" from the next
TwoWindowSpeech ==
    << [id |-> 0, start |-> 80, end |-> 95, text |-> HelloWorld,
        words |-> << [word |-> << "h", "e", "l", "l", "o" >>, start |-> 80, end |-> 87],
                     [word |-> << "w", "o", "r", "l", "d" >>, start |-> 88, end |-> 95] >>],
       [id |-> 0, start |-> 83, end |-> 98, text |-> HelloWorldThere,
        words |-> << [word |-> << "h", "e", "l", "l", "o" >>, start |-> 83, end |-> 87],
                     [word |-> << "w", "o", "r", "l", "d" >>, start |-> 88, end |-> 95],
                     [word |-> << "t", "h", "e", "r", "e" >>, start |-> 95, end |-> 98] >>] >>

\* the lists drawn as inputs: up to MaxSegs one-word segments in any
\* order, a pair of two-word segments, a one-word segment with a two-word
\* segment, or the speech heard in two windows
IsInputList(q) ==
    \/ \E n \in 0..MaxSegs : q \in [1..n -> WellFormedPool]
    \/ q \in [1..2 -> WellFormedTwoWordPool]
    \/ \E a \in WellFormedPool, b \in WellFormedTwoWordPool : q = << a, b >>
    \/ q = TwoWindowSpeech

\* no request is running: the list function is called on its own
NoRequest ==
    /\ ppc = "idle"
    /\ segment_duration = 0
    /\ overlap_duration = 0
    /\ language = "none"
    /\ total_duration = 0
    /\ segment_start = 0
    /\ all_segments = << >>
    /\ calls = << >>
    /\ response = Pending
    /\ cancel_requested = FALSE

\* An argument string is written as the sequence of its pieces between
\* underscores, the underscores included; << >> stands for None.
NoArg == << >>

\* transcriber_factory.py lines 18-21: the registered types
TranscriberTypes == { << "video" >> }

TypeArgs == { << "video" >>, << "stream" >> }

ModelSizeArgs == { NoArg, << "base" >>, << "small" >> }

DeviceArgs == { NoArg, << "auto" >> }

ComputeTypeArgs == { NoArg, << "int8", "_", "float16" >> }

\* value or os.environ.get(NAME, default), with the environment variable
\* unset (transcriber_factory.py line 53, base_transcriber.py lines 44-46)
OrDefault(value, default) == IF value = NoArg THEN default ELSE value

\* a key made of the transcriber type alone
InstanceKeyOfType(transcriber_type, model_size, device, compute_type) ==
    transcriber_type

\* line 53: the f-string that joins the four parts with underscores
InstanceKey(transcriber_type, model_size, device, compute_type) ==
    transcriber_type \o << "_" >> \o OrDefault(model_size, << "base" >>)
    \o << "_" >> \o OrDefault(device, << "auto" >>)
    \o << "_" >> \o OrDefault(compute_type, << "float16" >>)

\* the configuration a call asks for: its arguments with the defaults
\* filled in
ConfigOf(transcriber_type, model_size, device, compute_type) ==
    << transcriber_type, OrDefault(model_size, << "base" >>),
       OrDefault(device, << "auto" >>), OrDefault(compute_type, << "float16" >>) >>

Configs ==
    { ConfigOf(t, m, d, c) :
        t \in TranscriberTypes, m \in ModelSizeArgs, d \in DeviceArgs, c \in ComputeTypeArgs }

\* no transcriber has been asked of the factory
NoFactory ==
    /\ instances = << >>
    /\ transcribers = << >>
    /\ got = [kind |-> "pending", transcriber |-> 0, error |-> "none",
              asr |-> "none", align |-> "none",
              config |-> << >>, force_new |-> FALSE]
    /\ served = [config \in Configs |-> None]

\* no subtitle call is made
NoSubtitles ==
    /\ sub_call = [fn |-> "none"]
    /\ sub_result = [kind |-> "pending", value |-> << >>, file |-> << >>, error |-> "none"]

\* faster_whisper_stream.py lines 76-81: a FasterWhisperStream as its
\* constructor leaves it, with no call made on it
NewStream ==
    /\ audio_queue = << >>
    /\ is_running = FALSE
    /\ processing_thread = None
    /\ current_segments = << >>
    /\ is_final = FALSE
    /\ workers = << >>
    /\ cpc = "idle"
    /\ gpc = "none"
    /\ last_segment_count = 0
    /\ new_segments = << >>
    /\ yielded = << >>
    /\ put_log = << >>
    /\ transcribe_calls = << >>
    /\ stop_called = FALSE
    /\ streams_started = 0

\* main.py lines 38-43: the application as the module leaves it when it is
\* loaded, with no connection and no request made, and an empty temp directory
NoApp ==
    /\ active_connections = << >>
    /\ streaming_transcribers = << >>
    /\ connections = << >>
    /\ temp_files = { }
    /\ requests = << >>
    /\ uuids = 0

MergeInit ==
    /\ pc = "merge_call"
    /\ IsInputList(heap)
    /\ segments = [k \in 1..Len(heap) |-> k]
    /\ sorted_segments = << >>
    /\ current = None
    /\ merged = << >>
    /\ optimized = << >>
    /\ parts = << >>
    /\ given = heap
    /\ idx = 0
    /\ branch = "none"
    /\ NoRequest
    /\ NoFactory
    /\ NoSubtitles
    /\ NewStream
    /\ NoApp

SpecMerge == MergeInit /\ [][MergeNext]_vars

(**************************** optimize_segments ****************************)
\* the sort with the order reversed (reverse=True)
RECURSIVE OptSortedDescending(_, _)
OptSortedDescending(h, refs) ==
    IF refs = << >> THEN << >>
    ELSE LET rest == OptSortedDescending(h, SubSeq(refs, 1, Len(refs) - 1))
             r == refs[Len(refs)]
             n == Cardinality({ k \in 1..Len(rest) : h[rest[k]].start >= h[r].start })
         IN  SubSeq(rest, 1, n) \o << r >> \o SubSeq(rest, n + 1, Len(rest))

\* line 183: segments.sort(key=lambda x: x.start), stable and in place
OptSorted(h, refs) == SortedByStart(h, refs)

Duration(sg) == sg.end - sg.start

\* the test with a current of exactly MIN_DURATION taken as too short
ShouldMergeAtMin(cur, sg) ==
    Duration(cur) <= MIN_DURATION /\ sg.start - cur.end < MERGE_GAP

\* the test with a current of exactly MAX_DURATION taken as too long
TooLongAtMax(sg) == Duration(sg) >= MAX_DURATION

\* lines 208 and 217
TooLong(sg) == Duration(sg) > MAX_DURATION

\* lines 201-202
ShouldMerge(cur, sg) ==
    Duration(cur) < MIN_DURATION /\ sg.start - cur.end < MERGE_GAP

\* the merge without the new end (current.end left as it was)
OptMergeIntoKeepEnd(cur, sg) ==
    [cur EXCEPT !.text = cur.text \o << " " >> \o sg.text,
                !.words = cur.words \o sg.words]

\* lines 203-205
OptMergeInto(cur, sg) ==
    [cur EXCEPT !.end = sg.end,
                !.text = cur.text \o << " " >> \o sg.text,
                !.words = cur.words \o sg.words]

\* line 249: the marks that close a part; the four full-width marks
\* (ideographic full stop, full-width comma, exclamation and question mark)
\* are written by their code points
PunctuationMarks == { "U+3002", "U+FF0C", "U+FF01", "U+FF1F", ".", "!", "?" }

HasPunctuation(w) == \E k \in 1..Len(w.word) : w.word[k] \in PunctuationMarks

RECURSIVE JoinWords(_)
JoinWords(ws) == IF ws = << >> THEN << >> ELSE Head(ws).word \o JoinWords(Tail(ws))

\* lines 240-263: the parts, given the words not yet walked and the words
\* accumulated in current_words
RECURSIVE SplitParts(_, _)
SplitParts(rest, acc) ==
    IF rest = << >>
    THEN (IF acc # << >> THEN << [text |-> JoinWords(acc), words |-> acc] >> ELSE << >>)
    ELSE LET acc2 == Append(acc, Head(rest)) IN
         IF HasPunctuation(Head(rest))
         THEN << [text |-> JoinWords(acc2), words |-> acc2] >> \o SplitParts(Tail(rest), << >>)
         ELSE SplitParts(Tail(rest), acc2)

\* lines 266-278: TranscriptionSegment(start=, end=, text=, words=) is built
\* for every part that has words, without the id that models.py line 11
\* requires, so the constructor raises ValidationError for the first such
\* part; with no such part the result is the empty list
BuildSegments(ps) ==
    IF \E k \in 1..Len(ps) : ps[k].words # << >>
    THEN [raised |-> TRUE, result |-> << >>]
    ELSE [raised |-> FALSE, result |-> << >>]

\* lines 228-282, as one call
SplitLongSegment(sg) == BuildSegments(SplitParts(sg.words, << >>))

\* lines 179-190
OptSort ==
    /\ pc = "opt_call"
    /\ segments' = OptSorted(heap, segments)
    /\ optimized' = << >>
    /\ current' = None
    /\ idx' = 1
    /\ pc' = "opt_loop"
    /\ UNCHANGED << heap, sorted_segments, merged, parts, given, branch >>
    /\ UNCHANGED pipeVars
    /\ UNCHANGED otherVars

\* lines 193-195
OptTakeFirst ==
    /\ pc = "opt_loop"
    /\ idx <= Len(segments)
    /\ current = None
    /\ current' = segments[idx]
    /\ idx' = idx + 1
    /\ branch' = "first"
    /\ UNCHANGED << pc, heap, segments, sorted_segments, merged, optimized, parts, given >>
    /\ UNCHANGED pipeVars
    /\ UNCHANGED otherVars

\* lines 198-205
OptMerge ==
    /\ pc = "opt_loop"
    /\ idx <= Len(segments)
    /\ current # None
    /\ ShouldMerge(heap[current], heap[segments[idx]])
    /\ heap' = [heap EXCEPT ![current] = OptMergeInto(heap[current], heap[segments[idx]])]
    /\ idx' = idx + 1
    /\ branch' = "merge"
    /\ UNCHANGED << pc, segments, sorted_segments, current, merged, optimized, parts, given >>
    /\ UNCHANGED pipeVars
    /\ UNCHANGED otherVars

\* lines 206-213, current not longer than MAX_DURATION
OptFlush ==
    /\ pc = "opt_loop"
    /\ idx <= Len(segments)
    /\ current # None
    /\ ~ShouldMerge(heap[current], heap[segments[idx]])
    /\ ~TooLong(heap[current])
    /\ optimized' = Append(optimized, current)
    /\ current' = segments[idx]
    /\ idx' = idx + 1
    /\ branch' = "flush"
    /\ UNCHANGED << pc, heap, segments, sorted_segments, merged, parts, given >>
    /\ UNCHANGED pipeVars
    /\ UNCHANGED otherVars

\* lines 208-209 and 217-218 with 240-263: current is longer than
\* MAX_DURATION, _split_long_segment is called and walks its words
OptSplitParts ==
    /\ pc = "opt_loop"
    /\ current # None
    /\ \/ idx <= Len(segments) /\ ~ShouldMerge(heap[current], heap[segments[idx]])
       \/ idx > Len(segments)
    /\ TooLong(heap[current])
    /\ parts' = SplitParts(heap[current].words, << >>)
    /\ pc' = "opt_split"
    /\ UNCHANGED << heap, segments, sorted_segments, current, merged, optimized,
                    given, idx, branch >>
    /\ UNCHANGED pipeVars
    /\ UNCHANGED otherVars

\* lines 265-278 with 210-213 and 218-222: the segments are built from the
\* parts and the result is added to optimized
OptSplitBuild ==
    /\ pc = "opt_split"
    /\ LET split == BuildSegments(parts) IN
        \/ /\ split.raised
           /\ pc' = "opt_raised"
           /\ UNCHANGED << optimized, current, idx, branch >>
        \/ /\ ~split.raised
           /\ idx <= Len(segments)
           /\ optimized' = optimized \o split.result
           /\ current' = segments[idx]
           /\ idx' = idx + 1
           /\ branch' = "split"
           /\ pc' = "opt_loop"
        \/ /\ ~split.raised
           /\ idx > Len(segments)
           /\ optimized' = optimized \o split.result
           /\ pc' = "opt_done"
           /\ UNCHANGED << current, idx, branch >>
    /\ UNCHANGED << heap, segments, sorted_segments, merged, parts, given >>
    /\ UNCHANGED pipeVars
    /\ UNCHANGED otherVars

\* lines 216-222, current not longer than MAX_DURATION
OptReturn ==
    /\ pc = "opt_loop"
    /\ idx > Len(segments)
    /\ \/ /\ current = None
          /\ UNCHANGED optimized
       \/ /\ current # None
          /\ ~TooLong(heap[current])
          /\ optimized' = Append(optimized, current)
    /\ pc' = "opt_done"
    /\ UNCHANGED << heap, segments, sorted_segments, current, merged, parts, given,
                    idx, branch >>
    /\ UNCHANGED pipeVars
    /\ UNCHANGED otherVars

OptNext ==
    \/ OptSort
    \/ OptTakeFirst
    \/ OptMerge
    \/ OptFlush
    \/ OptSplitParts
    \/ OptSplitBuild
    \/ OptReturn

\* the list the function returned
OptResult == Deref(heap, optimized)

\* a segment with the given id that starts at s and lasts d, with the text
\* t; ws is the sequence of its words as << text, start offset, end offset >>
ShapedSegment(i, s, d, t, ws) ==
    [id |-> i, start |-> s, end |-> s + d, text |-> t,
     words |-> [k \in 1..Len(ws) |->
                  [word |-> ws[k][1], start |-> s + ws[k][2], end |-> s + ws[k][3]]]]

\* the kinds of segment drawn: shorter than MIN_DURATION with a word and
\* without words, of MIN_DURATION, of MAX_DURATION, longer than
\* MAX_DURATION without words, and longer with a mark inside
Shapes ==
    { [d |-> 4, text |-> << "u", "m" >>, ws |-> << << << "u", "m" >>, 0, 4 >> >>],
      [d |-> 4, text |-> << "h", "m" >>, ws |-> << >>],
      [d |-> 10, text |-> << "y", "e", "s" >>, ws |-> << << << "y", "e", "s" >>, 0, 10 >> >>],
      [d |-> 50, text |-> << "o", "k" >>, ws |-> << << << "o", "k" >>, 0, 50 >> >>],
      [d |-> 51, text |-> << "l", "a" >>, ws |-> << >>],
      [d |-> 51, text |-> << "a", " ", "b", ".", " ", "c" >>,
       ws |-> << << << "a" >>, 0, 20 >>, << << "b", "." >>, 20, 30 >>,
                 << << "c" >>, 30, 51 >> >>] }

\* the gaps drawn between a segment's end and the next segment's start:
\* under 0.3 s and 0.3 s
Gaps == { 2, 3 }

\* the stream laid out in time order from tick 0 by a sequence of
\* << gap, shape >> choices, with the ids 0, 1, ... of a reconciled stream
RECURSIVE StreamOf(_)
StreamOf(choices) ==
    IF choices = << >> THEN << >>
    ELSE LET q == StreamOf(SubSeq(choices, 1, Len(choices) - 1))
             c == choices[Len(choices)]
         IN  Append(q, ShapedSegment(Len(q),
                                     (IF q = << >> THEN 0 ELSE q[Len(q)].end + c[1]),
                                     c[2].d, c[2].text, c[2].ws))

Reverse(q) == [k \in 1..Len(q) |-> q[Len(q) + 1 - k]]

\* the lists drawn as inputs: a stream of up to MaxOptSegs segments (the
\* gap before the first segment plays no part), in time order or reversed
IsOptInput(q) ==
    \E n \in 0..MaxOptSegs :
        \E choices \in [1..n -> Gaps \X Shapes] :
            /\ n > 0 => choices[1][1] = 2
            /\ q = StreamOf(choices) \/ q = Reverse(StreamOf(choices))

OptInit ==
    /\ pc = "opt_call"
    /\ IsOptInput(heap)
    /\ segments = [k \in 1..Len(heap) |-> k]
    /\ given = heap
    /\ sorted_segments = << >>
    /\ current = None
    /\ merged = << >>
    /\ optimized = << >>
    /\ parts = << >>
    /\ idx = 0
    /\ branch = "none"
    /\ NoRequest
    /\ NoFactory
    /\ NoSubtitles
    /\ NewStream
    /\ NoApp

SpecOptimize == OptInit /\ [][OptNext]_vars

(************************* process_audio_segments **************************)
\* str.strip() of line 483: leading and trailing blanks removed
RECURSIVE StripLeft(_)
StripLeft(t) == IF t # << >> /\ Head(t) = " " THEN StripLeft(Tail(t)) ELSE t

RECURSIVE StripRight(_)
StripRight(t) ==
    IF t # << >> /\ t[Len(t)] = " " THEN StripRight(SubSeq(t, 1, Len(t) - 1)) ELSE t

Strip(t) == StripRight(StripLeft(t))

\* lines 475-476
OffsetTime(t, offset) == t + offset

\* a word left window-relative
OffsetWordRelative(w, offset) ==
    [word |-> w.word, start |-> w.start, end |-> w.end]

\* lines 484-492
OffsetWord(w, offset) ==
    [word |-> w.word, start |-> w.start + offset, end |-> w.end + offset]

\* lines 472-498: the segments built from the aligned result
ConvertSegments(raw, offset) ==
    [k \in 1..Len(raw) |->
        [id |-> k - 1,
         start |-> OffsetTime(raw[k].start, offset),
         end |-> OffsetTime(raw[k].end, offset),
         text |-> Strip(raw[k].text),
         words |-> [j \in 1..Len(raw[k].words) |-> OffsetWord(raw[k].words[j], offset)]]]

\* lines 447-448: the language handed to model.transcribe
NeedsDetection(lang) == lang = "auto" \/ lang = "none"

TranscribeLanguage(lang, detected) == IF NeedsDetection(lang) THEN detected ELSE lang

\* what the ASR and alignment engines may report
Languages == { "en", "zh" }

LanguageArgs == { "auto", "none", "zh" }

RawSegment(s, e) ==
    [start |-> s, end |-> e, text |-> << " ", "a" >>,
     words |-> << [word |-> << "a" >>, start |-> s, end |-> e] >>]

\* aligned results for a buffer of the given length: nothing, one
\* segment inside the buffer, or two segments of which the engine reports
\* the later one first
RawOutputs(length) ==
    { << >> } \cup { << RawSegment(s, e) >> : s \in 0..length, e \in 0..length }
    \cup { << RawSegment(length, length), RawSegment(0, length) >> }

WellFormedRawOutputs(length) ==
    { raw \in RawOutputs(length) : \A k \in 1..Len(raw) : raw[k].start <= raw[k].end }

\* one transcribe_audio call, as the engines saw it
Call(lang, detected, offset, wstart, wend, raw, ok) ==
    [language |-> TranscribeLanguage(lang, detected),
     detected |-> NeedsDetection(lang),
     offset |-> offset,
     window |-> [start |-> wstart, end |-> wend],
     raw |-> raw,
     ok |-> ok]

NewRefs(h, n) == [k \in 1..n |-> Len(h) + k]

\* the window end without the clamp to total_duration
SegmentEndUnclamped(start, total) == start + segment_duration

\* line 400
SegmentEnd(start, total) == Min(start + segment_duration, total)

\* the whole window length subtracted instead of the overlap
NextSegmentStartAtStart(end) == end - segment_duration

\* the overlap added instead of subtracted
NextSegmentStartPastEnd(end) == end + overlap_duration

\* line 418
NextSegmentStart(end) == end - overlap_duration

\* lines 380-385
LoadAudio ==
    /\ ppc = "start"
    /\ total_duration' \in 0..MaxTotal
    /\ ppc' = "loaded"
    /\ UNCHANGED << cancel_requested, segment_duration, overlap_duration, language, segment_start,
                    all_segments, calls, response >>
    /\ UNCHANGED listVars
    /\ UNCHANGED otherVars

\* lines 380 and 429-431: load_audio raises (lines 363-365), the error is raised
LoadAudioFails ==
    /\ ppc = "start"
    /\ response' = Raised("ffmpeg.Error")
    /\ ppc' = "load_raised"
    /\ UNCHANGED << cancel_requested, segment_duration, overlap_duration, language, total_duration,
                    segment_start, all_segments, calls >>
    /\ UNCHANGED listVars
    /\ UNCHANGED otherVars

\* lines 388-390 with 445-498: a short audio, transcribed in one call
DirectTranscribe ==
    /\ ppc = "loaded"
    /\ total_duration <= segment_duration
    /\ \E detected \in Languages, raw \in WellFormedRawOutputs(total_duration) :
        /\ calls' = Append(calls, Call(language, detected, 0, 0, total_duration, raw, TRUE))
        /\ heap' = heap \o ConvertSegments(raw, 0)
        /\ response' = Returned(NewRefs(heap, Len(raw)))
    /\ ppc' = "returned"
    /\ UNCHANGED << cancel_requested, segment_duration, overlap_duration, language, total_duration,
                    segment_start, all_segments >>
    /\ UNCHANGED << pc, segments, sorted_segments, current, merged, optimized,
                    parts, given, idx, branch >>
    /\ UNCHANGED otherVars

\* lines 388-390 with 500-502 and 429-431: the engines fail, the error is raised
DirectTranscribeFails ==
    /\ ppc = "loaded"
    /\ total_duration <= segment_duration
    /\ \E detected \in Languages :
        calls' = Append(calls, Call(language, detected, 0, 0, total_duration, << >>, FALSE))
    /\ response' = Raised("Exception")
    /\ ppc' = "raised"
    /\ UNCHANGED << cancel_requested, segment_duration, overlap_duration, language, total_duration,
                    segment_start, all_segments >>
    /\ UNCHANGED listVars
    /\ UNCHANGED otherVars

\* lines 395-396
EnterLoop ==
    /\ ppc = "loaded"
    /\ ~(total_duration <= segment_duration)
    /\ all_segments' = << >>
    /\ segment_start' = 0
    /\ ppc' = "loop"
    /\ UNCHANGED << cancel_requested, segment_duration, overlap_duration, language, total_duration,
                    calls, response >>
    /\ UNCHANGED listVars
    /\ UNCHANGED otherVars

\* lines 398-422: one iteration of the while loop
WindowTranscribe ==
    /\ ppc = "loop"
    /\ segment_start < total_duration
    /\ LET segment_end == SegmentEnd(segment_start, total_duration) IN
        /\ \E detected \in Languages,
              raw \in WellFormedRawOutputs(segment_end - segment_start) :
            /\ calls' = Append(calls, Call(language, detected,
                                           segment_start, segment_start, segment_end, raw, TRUE))
            /\ heap' = heap \o ConvertSegments(raw, segment_start)
            /\ all_segments' = all_segments \o NewRefs(heap, Len(raw))
        /\ segment_start' = NextSegmentStart(segment_end)
        /\ ppc' = IF segment_end >= total_duration THEN "merge" ELSE "loop"
    /\ UNCHANGED << cancel_requested, segment_duration, overlap_duration, language, total_duration, response >>
    /\ UNCHANGED << pc, segments, sorted_segments, current, merged, optimized,
                    parts, given, idx, branch >>
    /\ UNCHANGED otherVars

\* lines 398-412 with 500-502 and 429-431: the engines fail for a window
WindowTranscribeFails ==
    /\ ppc = "loop"
    /\ segment_start < total_duration
    /\ LET segment_end == SegmentEnd(segment_start, total_duration) IN
        \E detected \in Languages :
            calls' = Append(calls, Call(language, detected,
                                        segment_start, segment_start, segment_end, << >>, FALSE))
    /\ response' = Raised("Exception")
    /\ ppc' = "raised"
    /\ UNCHANGED << cancel_requested, segment_duration, overlap_duration, language, total_duration,
                    segment_start, all_segments >>
    /\ UNCHANGED listVars
    /\ UNCHANGED otherVars

\* lines 367-422: the caller asks, between two windows, for the request
\* to be cancelled. process_audio_segments takes no flag or token and the
\* loop of lines 398-422 reads none, so the wish changes nothing the code
\* sees.
RequestCancel ==
    /\ ppc = "loop"
    /\ calls # << >>
    /\ ~cancel_requested
    /\ cancel_requested' = TRUE
    /\ UNCHANGED << ppc, segment_duration, overlap_duration, language, total_duration,
                    segment_start, all_segments, calls, response >>
    /\ UNCHANGED listVars
    /\ UNCHANGED otherVars

\* line 425: the call of _merge_overlapping_segments(all_segments)
CallMerge ==
    /\ ppc = "merge"
    /\ segments' = all_segments
    /\ given' = Deref(heap, all_segments)
    /\ pc' = "merge_call"
    /\ ppc' = "merging"
    /\ UNCHANGED << heap, sorted_segments, current, merged, optimized, parts, idx, branch >>
    /\ UNCHANGED << cancel_requested, segment_duration, overlap_duration, language, total_duration,
                    segment_start, all_segments, calls, response >>
    /\ UNCHANGED otherVars

\* lines 425-427
ReturnMerged ==
    /\ ppc = "merging"
    /\ pc = "merge_done"
    /\ response' = Returned(merged)
    /\ ppc' = "returned"
    /\ UNCHANGED << cancel_requested, segment_duration, overlap_duration, language, total_duration,
                    segment_start, all_segments, calls >>
    /\ UNCHANGED listVars
    /\ UNCHANGED otherVars

Init ==
    /\ ppc = "start"
    /\ segment_duration \in 1..MaxSegmentDuration
    /\ overlap_duration \in 1..(segment_duration - 1)
    /\ language \in LanguageArgs
    /\ total_duration = 0
    /\ segment_start = 0
    /\ all_segments = << >>
    /\ calls = << >>
    /\ response = Pending
    /\ cancel_requested = FALSE
    /\ NoFactory
    /\ NoSubtitles
    /\ NewStream
    /\ NoApp
    /\ pc = "none"
    /\ heap = << >>
    /\ segments = << >>
    /\ sorted_segments = << >>
    /\ current = None
    /\ merged = << >>
    /\ optimized = << >>
    /\ parts = << >>
    /\ given = << >>
    /\ idx = 0
    /\ branch = "none"

Next ==
    \/ LoadAudio
    \/ LoadAudioFails
    \/ DirectTranscribe
    \/ DirectTranscribeFails
    \/ EnterLoop
    \/ WindowTranscribe
    \/ WindowTranscribeFails
    \/ CallMerge
    \/ MergeNext
    \/ ReturnMerged

Spec == Init /\ [][Next]_vars

\* lines 380-422: process_audio_segments up to the end of its while loop
WindowingNext ==
    \/ LoadAudio
    \/ LoadAudioFails
    \/ DirectTranscribe
    \/ DirectTranscribeFails
    \/ EnterLoop
    \/ WindowTranscribe
    \/ WindowTranscribeFails

\* process_audio_segments is one coroutine: between two statements nothing
\* but its own awaited call runs (no suspension point inside
\* transcribe_audio), and the engines return or raise, so a step that is
\* possible is eventually taken
SpecLive == Init /\ [][WindowingNext]_vars /\ WF_vars(WindowingNext)

\* the same part of the request, with a caller who may ask for cancellation
CancelNext ==
    \/ WindowingNext
    \/ RequestCancel

SpecCancel == Init /\ [][CancelNext]_vars

(**************************** TranscriberFactory ***************************)
\* base_transcriber.py lines 79-100: _load_whisper_model assigns self.model
\* when whisperx.load_model returns; when it raises, the error is logged,
\* False is returned and self.model keeps the None of line 77
LoadWhisperModel(asr_ok) == IF asr_ok THEN "loaded" ELSE "None"

\* video_transcription.py lines 49-64: the constructor; the value of
\* _load_whisper_model is not looked at, an error of _load_alignment_model
\* (lines 66-80) is raised
NewVideoTranscriber(model_size, asr_ok, align_ok) ==
    IF align_ok
    THEN [raised |-> FALSE,
          object |-> [model_size |-> OrDefault(model_size, << "base" >>),
                      model |-> LoadWhisperModel(asr_ok),
                      alignment_model |-> "loaded"]]
    ELSE [raised |-> TRUE,
          object |-> [model_size |-> NoArg, model |-> "None", alignment_model |-> "None"]]

\* what get_transcriber gave, what happened to the loads it made
\* ("none": no load was tried), and the configuration and force_new of
\* the call
Got(kind, ref, error, asr, align, config, force_new) ==
    [kind |-> kind, transcriber |-> ref, error |-> error, asr |-> asr, align |-> align,
     config |-> config, force_new |-> force_new]

Outcome(ok) == IF ok THEN "loaded" ELSE "failed"

\* transcriber_factory.py lines 49-50
GetTranscriberInvalidType ==
    /\ \E transcriber_type \in TypeArgs, force_new \in BOOLEAN :
        /\ transcriber_type \notin TranscriberTypes
        /\ got' = Got("raised", None, "ValueError", "none", "none",
                      ConfigOf(transcriber_type, NoArg, NoArg, NoArg), force_new)
    /\ UNCHANGED << instances, transcribers, served >>
    /\ UNCHANGED notFactoryVars

\* lines 53-65, an instance is constructed
GetTranscriberNew ==
    /\ Len(transcribers) < MaxTranscribers
    /\ \E transcriber_type \in TranscriberTypes, model_size \in ModelSizeArgs,
          device \in DeviceArgs, compute_type \in ComputeTypeArgs,
          force_new \in BOOLEAN, asr_ok \in BOOLEAN, align_ok \in BOOLEAN :
        LET instance_key == InstanceKey(transcriber_type, model_size, device, compute_type)
            config == ConfigOf(transcriber_type, model_size, device, compute_type)
            made == NewVideoTranscriber(model_size, asr_ok, align_ok)
        IN  /\ force_new \/ instance_key \notin DOMAIN instances
            /\ \/ /\ made.raised
                   /\ got' = Got("raised", None, "Exception", Outcome(asr_ok), "failed",
                                 config, force_new)
                   /\ UNCHANGED << instances, transcribers, served >>
                \/ /\ ~made.raised
                   /\ transcribers' = Append(transcribers, made.object)
                   /\ instances' =
                        [k \in DOMAIN instances \cup { instance_key } |->
                            IF k = instance_key THEN Len(transcribers) + 1 ELSE instances[k]]
                   /\ got' = Got("returned", Len(transcribers) + 1, "none",
                                 Outcome(asr_ok), "loaded", config, force_new)
                   /\ served' = [served EXCEPT ![config] = Len(transcribers) + 1]
    /\ UNCHANGED notFactoryVars

\* lines 56 and 65, the cached instance is returned
GetTranscriberCached ==
    /\ \E transcriber_type \in TranscriberTypes, model_size \in ModelSizeArgs,
          device \in DeviceArgs, compute_type \in ComputeTypeArgs :
        LET instance_key == InstanceKey(transcriber_type, model_size, device, compute_type)
            config == ConfigOf(transcriber_type, model_size, device, compute_type)
        IN  /\ instance_key \in DOMAIN instances
            /\ got' = Got("returned", instances[instance_key], "none", "none", "none",
                          config, FALSE)
            /\ served' = [served EXCEPT ![config] = instances[instance_key]]
    /\ UNCHANGED << instances, transcribers >>
    /\ UNCHANGED notFactoryVars

\* lines 79-85
ClearInstances ==
    /\ instances # << >>
    /\ instances' = << >>
    /\ served' = [config \in Configs |-> None]
    /\ UNCHANGED << transcribers, got >>
    /\ UNCHANGED notFactoryVars

FactoryNext ==
    \/ GetTranscriberInvalidType
    \/ GetTranscriberNew
    \/ GetTranscriberCached
    \/ ClearInstances

\* no list function is running
NoListCall ==
    /\ pc = "none"
    /\ heap = << >>
    /\ segments = << >>
    /\ sorted_segments = << >>
    /\ current = None
    /\ merged = << >>
    /\ optimized = << >>
    /\ parts = << >>
    /\ given = << >>
    /\ idx = 0
    /\ branch = "none"

FactoryInit ==
    /\ NoFactory
    /\ NoListCall
    /\ NoRequest
    /\ NoSubtitles
    /\ NewStream
    /\ NoApp

SpecFactory == FactoryInit /\ [][FactoryNext]_vars

(******************* generate_subtitles, _format_timestamp *****************)
\* In this part a time is a whole number of milliseconds (the float
\* seconds of the source times 1000).

\* str(n) for n >= 0
Digit(d) == << "0", "1", "2", "3", "4", "5", "6", "7", "8", "9" >>[d + 1]

RECURSIVE DecimalString(_)
DecimalString(n) ==
    IF n < 10 THEN << Digit(n) >> ELSE Append(DecimalString(n \div 10), Digit(n % 10))

\* f"{n:0wd}": zero-padded to at least w characters
RECURSIVE ZeroPad(_, _)
ZeroPad(str, w) == IF Len(str) >= w THEN str ELSE ZeroPad(<< "0" >> \o str, w)

Padded(n, w) == ZeroPad(DecimalString(n), w)

\* transcription.py lines 384-389 and faster_whisper.py lines 167-172: the
\* character before the milliseconds
MillisecondSeparator(format) == IF format = "srt" THEN "," ELSE "."

\* transcription.py lines 379-389 and faster_whisper.py lines 162-172:
\* timedelta(seconds=seconds) is normalised to days, seconds (0..86399)
\* and microseconds, and only td.seconds and td.microseconds are used
TimedeltaTimestamp(t, format) ==
    LET td_seconds == (t \div 1000) % 86400
        td_microseconds == (t % 1000) * 1000
        hours == td_seconds \div 3600
        remainder == td_seconds % 3600
        minutes == remainder \div 60
        seconds == remainder % 60
        milliseconds == td_microseconds \div 1000
    IN  Padded(hours, 2) \o << ":" >> \o Padded(minutes, 2) \o << ":" >>
        \o Padded(seconds, 2) \o << MillisecondSeparator(format) >>
        \o Padded(milliseconds, 3)

\* models.py lines 5-8: the members of SubtitleFormat are vtt, srt and json
SubtitleFormats == { "vtt", "srt", "json" }

\* SubtitleFormat.<name>: the enum class has no such member unless the name
\* is one of its members, and the attribute lookup raises AttributeError
EnumLookupRaises(name) == name \notin SubtitleFormats

SubResult(kind, value, file, error) ==
    [kind |-> kind, value |-> value, file |-> file, error |-> error]

TimedeltaClasses == { "WhisperTranscriber", "FasterWhisperStream" }

EnumClasses == { "BaseTranscriber", "VideoTranscriber" }

\* transcription.py lines 368-389, faster_whisper.py lines 151-172
FormatTimestampTimedelta ==
    /\ sub_call.fn = "_format_timestamp"
    /\ sub_call.cls \in TimedeltaClasses
    /\ sub_result.kind = "pending"
    /\ sub_result' = SubResult("returned",
                               TimedeltaTimestamp(sub_call.seconds, sub_call.format),
                               << >>, "none")
    /\ UNCHANGED sub_call
    /\ UNCHANGED notSubVars

\* base_transcriber.py lines 260-282, video_transcription.py lines 636-658:
\* after hours, minutes and seconds are computed, the first test compares
\* format with SubtitleFormat.SRT
FormatTimestampEnum ==
    /\ sub_call.fn = "_format_timestamp"
    /\ sub_call.cls \in EnumClasses
    /\ sub_result.kind = "pending"
    /\ EnumLookupRaises("SRT")
    /\ sub_result' = SubResult("raised", << >>, << >>, "AttributeError")
    /\ UNCHANGED sub_call
    /\ UNCHANGED notSubVars

\* str.strip() on a segment text
CueText(sg) == Strip(sg.text)

TimestampLine(sg, format) ==
    TimedeltaTimestamp(sg.start, format) \o << " ", "-", "-", ">", " " >>
    \o TimedeltaTimestamp(sg.end, format)

\* transcription.py lines 343-349: the lines written for vtt
RECURSIVE VttCues(_)
VttCues(sgs) ==
    IF sgs = << >> THEN << >>
    ELSE << TimestampLine(Head(sgs), "vtt"), CueText(Head(sgs)), << >> >>
         \o VttCues(Tail(sgs))

\* transcription.py lines 351-357: the lines written for srt, the first
\* cue being number i + 1
RECURSIVE SrtCues(_, _)
SrtCues(sgs, i) ==
    IF sgs = << >> THEN << >>
    ELSE << DecimalString(i + 1), TimestampLine(Head(sgs), "srt"), CueText(Head(sgs)), << >> >>
         \o SrtCues(Tail(sgs), i + 1)

\* transcription.py lines 343-361: what is written to the file, as lines
\* for vtt and srt and as the dumped list for json
WrittenFile(sgs, format) ==
    IF format = "vtt"
    THEN [lines |-> << << "W", "E", "B", "V", "T", "T" >>, << >> >> \o VttCues(sgs),
          json |-> << >>]
    ELSE IF format = "srt"
    THEN [lines |-> SrtCues(sgs, 0), json |-> << >>]
    ELSE [lines |-> << >>, json |-> sgs]

\* transcription.py lines 328-366: the subtitles are written to a file
\* under subtitles/ and the path of the file is returned
GenerateSubtitlesFile ==
    /\ sub_call.fn = "generate_subtitles"
    /\ sub_call.cls = "WhisperTranscriber"
    /\ sub_result.kind = "pending"
    /\ sub_result' = SubResult("returned", "path",
                               WrittenFile(sub_call.segments, sub_call.format), "none")
    /\ UNCHANGED sub_call
    /\ UNCHANGED notSubVars

\* base_transcriber.py lines 185-203, video_transcription.py lines 561-579:
\* the first test compares format with SubtitleFormat.SRT
GenerateSubtitlesEnum ==
    /\ sub_call.fn = "generate_subtitles"
    /\ sub_call.cls \in EnumClasses
    /\ sub_result.kind = "pending"
    /\ EnumLookupRaises("SRT")
    /\ sub_result' = SubResult("raised", << >>, << >>, "AttributeError")
    /\ UNCHANGED sub_call
    /\ UNCHANGED notSubVars

SubtitlesNext ==
    \/ FormatTimestampTimedelta
    \/ FormatTimestampEnum
    \/ GenerateSubtitlesFile
    \/ GenerateSubtitlesEnum

\* the times drawn, in milliseconds: around the hour, minute and second
\* boundaries and around 24 hours
SampleTimes ==
    { h * 3600000 + m * 60000 + sec * 1000 + ms :
        h \in { 0, 1, 23, 24, 25 }, m \in { 0, 59 }, sec \in { 0, 59 }, ms \in { 0, 1, 999 } }

\* the segments drawn for generate_subtitles
CuePool ==
    { [id |-> 0, start |-> 0, end |-> 1500, text |-> << "h", "i" >>, words |-> << >>],
      [id |-> 1, start |-> 3599999, end |-> 3600001, text |-> << " ", "y", "o" >>, words |-> << >>],
      [id |-> 2, start |-> 61001, end |-> 86400000, text |-> << "o", "k" >>, words |-> << >>] }

IsSubCall(c) ==
    \/ \E cls \in TimedeltaClasses \cup EnumClasses, format \in SubtitleFormats,
           t \in SampleTimes :
         c = [fn |-> "_format_timestamp", cls |-> cls, format |-> format,
              seconds |-> t, segments |-> << >>]
    \/ \E cls \in { "WhisperTranscriber" } \cup EnumClasses, format \in SubtitleFormats,
           n \in 0..MaxCues :
         \E sgs \in [1..n -> CuePool] :
            c = [fn |-> "generate_subtitles", cls |-> cls, format |-> format,
                 seconds |-> 0, segments |-> sgs]

SubtitlesInit ==
    /\ IsSubCall(sub_call)
    /\ sub_result = SubResult("pending", << >>, << >>, "none")
    /\ NewStream
    /\ NoApp
    /\ NoFactory
    /\ NoListCall
    /\ NoRequest

SpecSubtitles == SubtitlesInit /\ [][SubtitlesNext]_vars

(***************************** FasterWhisperStream *************************)
\* In this part a length of audio is a whole number of seconds of samples
\* (16000 samples).

\* faster_whisper_stream.py line 164: 16000 * 3 samples
BUFFER_SECONDS == 3

\* line 133: the end sentinel None on the queue
EndSentinel == [id |-> 0, size |-> 0]

\* the chunk lengths drawn
ChunkSizes == { 1, 2, 4 }

RECURSIVE BufferSize(_)
BufferSize(buffer) ==
    IF buffer = << >> THEN 0 ELSE Head(buffer).size + BufferSize(Tail(buffer))

\* the test with a buffer of exactly 3 s taken as large enough
BufferAtLeastLimit(buffer) == BufferSize(buffer) >= BUFFER_SECONDS

\* line 164
BufferFull(buffer) == BufferSize(buffer) > BUFFER_SECONDS

ChunkIds(buffer) == [k \in 1..Len(buffer) |-> buffer[k].id]

ChunksPut == Cardinality({ k \in 1..Len(put_log) : put_log[k] # EndSentinel })

SentinelsPut == Cardinality({ k \in 1..Len(put_log) : put_log[k] = EndSentinel })

Alive(w) == workers[w].pc # "exited"

InTranscribe(w) == workers[w].pc \in { "transcribe", "final_transcribe" }

\* no generator is running: the caller may call a method of the stream
CallerFree == cpc = "idle" /\ gpc \in { "none", "g_done" }

\* lines 87-93, called with is_running false: the flag is set and a new
\* thread is started
ThreadStarted ==
    /\ Len(workers) < MaxWorkers
    /\ is_running' = TRUE
    /\ workers' = Append(workers, [pc |-> "loop", buffer |-> << >>])
    /\ processing_thread' = Len(workers) + 1

\* lines 83-94; with is_running true the method returns and changes nothing
StartProcessing ==
    /\ CallerFree
    /\ ~is_running
    /\ ThreadStarted
    /\ UNCHANGED << audio_queue, current_segments, is_final, cpc, gpc, last_segment_count,
                    new_segments, yielded, put_log, transcribe_calls, stop_called,
                    streams_started >>
    /\ UNCHANGED notStreamVars

\* lines 114-126: start_processing when not running, then the chunk is put
ChunkAdded(size) ==
    /\ ChunksPut < MaxChunks
    /\ IF ~is_running THEN ThreadStarted
                      ELSE UNCHANGED << is_running, workers, processing_thread >>
    /\ LET chunk == [id |-> ChunksPut + 1, size |-> size] IN
        /\ audio_queue' = Append(audio_queue, chunk)
        /\ put_log' = Append(put_log, chunk)

\* lines 106-126
AddAudioChunk ==
    /\ CallerFree
    /\ \E size \in ChunkSizes : ChunkAdded(size)
    /\ UNCHANGED << current_segments, is_final, cpc, gpc, last_segment_count, new_segments,
                    yielded, transcribe_calls, stop_called, streams_started >>
    /\ UNCHANGED notStreamVars

\* lines 132-133, called by the caller or by stream_transcribe (line 253):
\* the flag is set and the sentinel is put; the join of line 137 follows
FinalizePut ==
    /\ cpc = "idle"
    /\ gpc \in { "none", "g_done", "g_finalize" }
    /\ SentinelsPut < MaxFinalizes
    /\ is_final' = TRUE
    /\ audio_queue' = Append(audio_queue, EndSentinel)
    /\ put_log' = Append(put_log, EndSentinel)
    /\ cpc' = "finalize_join"
    /\ UNCHANGED << is_running, processing_thread, current_segments, workers, gpc,
                    last_segment_count, new_segments, yielded, transcribe_calls,
                    stop_called, streams_started >>
    /\ UNCHANGED notStreamVars

\* lines 136-140: join(timeout=10.0) returns when there is no thread, when
\* the thread has ended, or on timeout; the timeout is taken to expire only
\* while the worker is inside model.transcribe or waits on an empty queue
\* with is_running true
FinalizeReturn ==
    /\ cpc = "finalize_join"
    /\ IF processing_thread = None THEN TRUE
       ELSE \/ ~Alive(processing_thread)
            \/ InTranscribe(processing_thread)
            \/ (is_running /\ audio_queue = << >>)
    /\ cpc' = "idle"
    /\ gpc' = IF gpc = "g_finalize" THEN "g_final" ELSE gpc
    /\ UNCHANGED << is_running, processing_thread, audio_queue, current_segments, is_final,
                    workers, last_segment_count, new_segments, yielded, put_log,
                    transcribe_calls, stop_called, streams_started >>
    /\ UNCHANGED notStreamVars

\* lines 100-101, called by the caller or by the finally of stream_transcribe
\* (line 261): the flag is cleared; with a thread, the join of line 102
\* follows
StopProcessing ==
    /\ cpc = "idle"
    /\ gpc \in { "none", "g_done", "g_stop" }
    /\ is_running \/ processing_thread # None \/ ~stop_called \/ gpc = "g_stop"
    /\ is_running' = FALSE
    /\ stop_called' = TRUE
    /\ IF processing_thread # None
       THEN cpc' = "stop_join" /\ UNCHANGED gpc
       ELSE cpc' = "idle" /\ gpc' = (IF gpc = "g_stop" THEN "g_done" ELSE gpc)
    /\ UNCHANGED << processing_thread, audio_queue, current_segments, is_final, workers,
                    last_segment_count, new_segments, yielded, put_log, transcribe_calls,
                    streams_started >>
    /\ UNCHANGED notStreamVars

\* lines 102-104: join(timeout=2.0) returns when the thread has ended or on
\* timeout (the worker is inside model.transcribe); the reference to the
\* thread is dropped
StopReturn ==
    /\ cpc = "stop_join"
    /\ ~Alive(processing_thread) \/ InTranscribe(processing_thread)
    /\ processing_thread' = None
    /\ cpc' = "idle"
    /\ gpc' = IF gpc = "g_stop" THEN "g_done" ELSE gpc
    /\ UNCHANGED << is_running, audio_queue, current_segments, is_final, workers,
                    last_segment_count, new_segments, yielded, put_log, transcribe_calls,
                    stop_called, streams_started >>
    /\ UNCHANGED notStreamVars

\* lines 232-239: stream_transcribe resets the state and starts the thread
StreamTranscribe ==
    /\ CallerFree
    /\ streams_started < MaxStreams
    /\ streams_started' = streams_started + 1
    /\ current_segments' = << >>
    /\ is_final' = FALSE
    /\ IF ~is_running THEN ThreadStarted
                      ELSE UNCHANGED << is_running, workers, processing_thread >>
    /\ last_segment_count' = 0
    /\ new_segments' = << >>
    /\ yielded' = << >>
    /\ gpc' = "g_next"
    /\ UNCHANGED << audio_queue, cpc, put_log, transcribe_calls, stop_called >>
    /\ UNCHANGED notStreamVars

\* lines 243-244: the audio stream gives a chunk, which is added
GenNextChunk ==
    /\ gpc = "g_next"
    /\ \E size \in ChunkSizes : ChunkAdded(size)
    /\ gpc' = "g_check"
    /\ UNCHANGED << current_segments, is_final, cpc, last_segment_count, new_segments,
                    yielded, transcribe_calls, stop_called, streams_started >>
    /\ UNCHANGED notStreamVars

\* line 243: the audio stream is exhausted
GenEndOfStream ==
    /\ gpc = "g_next"
    /\ gpc' = "g_finalize"
    /\ UNCHANGED << is_running, processing_thread, audio_queue, current_segments, is_final,
                    workers, cpc, last_segment_count, new_segments, yielded, put_log,
                    transcribe_calls, stop_called, streams_started >>
    /\ UNCHANGED notStreamVars

\* lines 247-248: the test and the slice
GenCheck ==
    /\ gpc = "g_check"
    /\ IF Len(current_segments) > last_segment_count
       THEN /\ new_segments' = SubSeq(current_segments, last_segment_count + 1,
                                      Len(current_segments))
            /\ gpc' = "g_update"
       ELSE /\ UNCHANGED new_segments
            /\ gpc' = "g_next"
    /\ UNCHANGED << is_running, processing_thread, audio_queue, current_segments, is_final,
                    workers, cpc, last_segment_count, yielded, put_log, transcribe_calls,
                    stop_called, streams_started >>
    /\ UNCHANGED notStreamVars

\* lines 249-250: the length is read again, then the slice is yielded
GenYield ==
    /\ gpc = "g_update"
    /\ last_segment_count' = Len(current_segments)
    /\ yielded' = yielded \o new_segments
    /\ gpc' = "g_next"
    /\ UNCHANGED << is_running, processing_thread, audio_queue, current_segments, is_final,
                    workers, cpc, new_segments, put_log, transcribe_calls, stop_called,
                    streams_started >>
    /\ UNCHANGED notStreamVars

\* lines 256-257: final_segments is the list self.current_segments
GenFinalYield ==
    /\ gpc = "g_final"
    /\ cpc = "idle"
    /\ IF Len(current_segments) > last_segment_count
       THEN yielded' = yielded \o SubSeq(current_segments, last_segment_count + 1,
                                         Len(current_segments))
       ELSE UNCHANGED yielded
    /\ gpc' = "g_stop"
    /\ UNCHANGED << is_running, processing_thread, audio_queue, current_segments, is_final,
                    workers, cpc, last_segment_count, new_segments, put_log,
                    transcribe_calls, stop_called, streams_started >>
    /\ UNCHANGED notStreamVars

\* line 148: the loop test fails and the thread ends
WorkerExit(w) ==
    /\ workers[w].pc = "loop"
    /\ ~is_running
    /\ workers' = [workers EXCEPT ![w].pc = "exited"]
    /\ UNCHANGED << is_running, processing_thread, audio_queue, current_segments, is_final,
                    cpc, gpc, last_segment_count, new_segments, yielded, put_log,
                    transcribe_calls, stop_called, streams_started >>
    /\ UNCHANGED notStreamVars

\* lines 148-166: a chunk is taken and appended to the buffer; a buffer that
\* is large enough is handed to _transcribe_audio
WorkerTakeChunk(w) ==
    /\ workers[w].pc = "loop"
    /\ is_running
    /\ audio_queue # << >>
    /\ Head(audio_queue) # EndSentinel
    /\ audio_queue' = Tail(audio_queue)
    /\ LET buffer == Append(workers[w].buffer, Head(audio_queue)) IN
        IF BufferFull(buffer)
        THEN /\ workers' = [workers EXCEPT ![w] = [pc |-> "transcribe", buffer |-> buffer]]
             /\ transcribe_calls' =
                    Append(transcribe_calls, [worker |-> w, audio |-> ChunkIds(buffer)])
        ELSE /\ workers' = [workers EXCEPT ![w] = [pc |-> "loop", buffer |-> buffer]]
             /\ UNCHANGED transcribe_calls
    /\ UNCHANGED << is_running, processing_thread, current_segments, is_final, cpc, gpc,
                    last_segment_count, new_segments, yielded, put_log, stop_called,
                    streams_started >>
    /\ UNCHANGED notStreamVars

\* lines 148-158: the sentinel is taken; a non-empty buffer is handed to
\* _transcribe_audio, and the loop is left
WorkerTakeEnd(w) ==
    /\ workers[w].pc = "loop"
    /\ is_running
    /\ audio_queue # << >>
    /\ Head(audio_queue) = EndSentinel
    /\ audio_queue' = Tail(audio_queue)
    /\ IF workers[w].buffer # << >>
       THEN /\ workers' = [workers EXCEPT ![w].pc = "final_transcribe"]
            /\ transcribe_calls' =
                   Append(transcribe_calls,
                          [worker |-> w, audio |-> ChunkIds(workers[w].buffer)])
       ELSE /\ workers' = [workers EXCEPT ![w].pc = "exited"]
            /\ UNCHANGED transcribe_calls
    /\ UNCHANGED << is_running, processing_thread, current_segments, is_final, cpc, gpc,
                    last_segment_count, new_segments, yielded, put_log, stop_called,
                    streams_started >>
    /\ UNCHANGED notStreamVars

\* lines 181-219: model.transcribe returns no segment (or raises) or one
\* segment, which is appended to self.current_segments; then line 166
\* empties the buffer, or line 158 leaves the loop
WorkerTranscribed(w) ==
    /\ InTranscribe(w)
    /\ \E n \in 0..1 :
        current_segments' =
            IF n = 0 THEN current_segments
            ELSE Append(current_segments,
                        [id |-> Len(current_segments), call |-> Len(transcribe_calls)])
    /\ workers' = [workers EXCEPT ![w] =
                      IF workers[w].pc = "transcribe"
                      THEN [pc |-> "loop", buffer |-> << >>]
                      ELSE [pc |-> "exited", buffer |-> workers[w].buffer]]
    /\ UNCHANGED << is_running, processing_thread, audio_queue, is_final, cpc, gpc,
                    last_segment_count, new_segments, yielded, put_log, transcribe_calls,
                    stop_called, streams_started >>
    /\ UNCHANGED notStreamVars

\* lines 142-172: the steps of the worker threads
WorkerNext ==
    \/ \E w \in 1..Len(workers) : WorkerExit(w)
    \/ \E w \in 1..Len(workers) : WorkerTakeChunk(w)
    \/ \E w \in 1..Len(workers) : WorkerTakeEnd(w)
    \/ \E w \in 1..Len(workers) : WorkerTranscribed(w)

\* a caller who calls the methods of the stream one after the other, and
\* the worker threads
StreamNext ==
    \/ StartProcessing
    \/ AddAudioChunk
    \/ FinalizePut
    \/ FinalizeReturn
    \/ StopProcessing
    \/ StopReturn
    \/ WorkerNext

\* a caller who runs stream_transcribe, and the worker threads
StreamTranscribeNext ==
    \/ StreamTranscribe
    \/ GenNextChunk
    \/ GenEndOfStream
    \/ GenCheck
    \/ GenYield
    \/ GenFinalYield
    \/ FinalizePut
    \/ FinalizeReturn
    \/ StopProcessing
    \/ StopReturn
    \/ WorkerNext

StreamInit ==
    /\ NewStream
    /\ NoApp
    /\ NoFactory
    /\ NoListCall
    /\ NoRequest
    /\ NoSubtitles

SpecStream == StreamInit /\ [][StreamNext]_vars

SpecStreamTranscribe == StreamInit /\ [][StreamTranscribeNext]_vars

(***************************** POST /transcribe ****************************)
\* A file is the record of its directory, the uuid4 drawn for its name and
\* the rest of its name; the n-th uuid drawn is the number n.
TempPath(uuid, name) == [dir |-> "temp", uuid |-> uuid, name |-> name]

\* the file names of the uploads drawn
UploadNames == { "a.wav", "b.mp4" }

\* transcription.py lines 109-113: the extension is .wav
IsWavName(name) == name = "a.wav"

\* a path local that has not been assigned yet
Unbound == TempPath(0, "")

UploadRequestOf(filename) ==
    [pc |-> "read", filename |-> filename, temp_file_path |-> Unbound,
     audio_path |-> Unbound, status |-> "pending"]

\* the handler has its file and has not returned: from `await file.read()`
\* on the handler has no await that gives the event loop to another request
InHandler(r) ==
    requests[r].pc \in { "saved", "extracted", "loaded", "transcribed", "subtitled" }

UploadAt(r, at) ==
    /\ r \in 1..Len(requests)
    /\ requests[r].pc = at

\* main.py lines 353-355: the exception becomes a 500 response
UploadFailed(r) == [requests EXCEPT ![r].pc = "done", ![r].status = "error"]

\* main.py lines 319-332: a request arrives and waits in `await file.read()`
UploadRequest(filename) ==
    /\ Len(requests) < MaxUploads
    /\ requests' = Append(requests, UploadRequestOf(filename))
    /\ UNCHANGED << active_connections, streaming_transcribers, connections, temp_files,
                    uuids >>
    /\ UNCHANGED notAppVars

\* main.py lines 330-332: the upload is written to temp/<uuid>_<filename>
UploadSave(r) ==
    /\ UploadAt(r, "read")
    /\ \A q \in 1..Len(requests) : ~InHandler(q)
    /\ uuids' = uuids + 1
    /\ temp_files' = temp_files \cup { TempPath(uuids + 1, requests[r].filename) }
    /\ requests' = [requests EXCEPT ![r].pc = "saved",
                                    ![r].temp_file_path =
                                        TempPath(uuids + 1, requests[r].filename)]
    /\ UNCHANGED << active_connections, streaming_transcribers, connections >>
    /\ UNCHANGED notAppVars

\* main.py line 332: file.read() raises
UploadReadFails(r) ==
    /\ UploadAt(r, "read")
    /\ \A q \in 1..Len(requests) : ~InHandler(q)
    /\ requests' = UploadFailed(r)
    /\ UNCHANGED << active_connections, streaming_transcribers, connections, temp_files,
                    uuids >>
    /\ UNCHANGED notAppVars

\* transcription.py lines 88-157 (extract_audio, called at line 250): a
\* 16-bit mono 16 kHz .wav is used as it is; anything else is converted
\* by ffmpeg into temp/<uuid>.wav, or ffmpeg fails
UploadExtract(r, outcome) ==
    /\ UploadAt(r, "saved")
    /\ outcome \in { "as_it_is", "converted", "error" }
    /\ outcome = "as_it_is" => IsWavName(requests[r].filename)
    /\ IF outcome = "as_it_is"
       THEN /\ requests' = [requests EXCEPT ![r].pc = "extracted",
                                            ![r].audio_path = requests[r].temp_file_path]
            /\ UNCHANGED << temp_files, uuids >>
       ELSE /\ uuids' = uuids + 1
            /\ IF outcome = "converted"
               THEN /\ temp_files' = temp_files \cup { TempPath(uuids + 1, ".wav") }
                    /\ requests' = [requests EXCEPT ![r].pc = "extracted",
                                                    ![r].audio_path =
                                                        TempPath(uuids + 1, ".wav")]
               ELSE /\ requests' = UploadFailed(r)
                    /\ UNCHANGED temp_files
    /\ UNCHANGED << active_connections, streaming_transcribers, connections >>
    /\ UNCHANGED notAppVars

\* transcription.py lines 159-220 (load_audio, called at line 261)
UploadLoad(r, ok) ==
    /\ UploadAt(r, "extracted")
    /\ requests' = IF ok THEN [requests EXCEPT ![r].pc = "loaded"] ELSE UploadFailed(r)
    /\ UNCHANGED << active_connections, streaming_transcribers, connections, temp_files,
                    uuids >>
    /\ UNCHANGED notAppVars

\* transcription.py lines 263-317: the model transcribes; when it has, the
\* converted audio is removed (lines 315-316)
UploadTranscribe(r, ok) ==
    /\ UploadAt(r, "loaded")
    /\ IF ok
       THEN /\ requests' = [requests EXCEPT ![r].pc = "transcribed"]
            /\ temp_files' =
                 IF requests[r].audio_path # requests[r].temp_file_path
                 THEN temp_files \ { requests[r].audio_path }
                 ELSE temp_files
       ELSE /\ requests' = UploadFailed(r)
            /\ UNCHANGED temp_files
    /\ UNCHANGED << active_connections, streaming_transcribers, connections, uuids >>
    /\ UNCHANGED notAppVars

\* main.py line 342, transcription.py lines 328-366: the subtitle file is
\* written into the directory subtitles, or open() or a write raises
UploadSubtitles(r, ok) ==
    /\ UploadAt(r, "transcribed")
    /\ uuids' = uuids + 1
    /\ requests' = IF ok THEN [requests EXCEPT ![r].pc = "subtitled"] ELSE UploadFailed(r)
    /\ UNCHANGED << active_connections, streaming_transcribers, connections, temp_files >>
    /\ UNCHANGED notAppVars

\* main.py lines 345-352: os.remove(temp_file_path), then the response
UploadRemove(r) ==
    /\ UploadAt(r, "subtitled")
    /\ temp_files' = temp_files \ { requests[r].temp_file_path }
    /\ requests' = [requests EXCEPT ![r].pc = "done", ![r].status = "success"]
    /\ UNCHANGED << active_connections, streaming_transcribers, connections, uuids >>
    /\ UNCHANGED notAppVars

UploadNext ==
    \/ \E filename \in UploadNames : UploadRequest(filename)
    \/ \E r \in 1..MaxUploads : UploadSave(r)
    \/ \E r \in 1..MaxUploads : UploadReadFails(r)
    \/ \E r \in 1..MaxUploads, outcome \in { "as_it_is", "converted", "error" } :
          UploadExtract(r, outcome)
    \/ \E r \in 1..MaxUploads, ok \in BOOLEAN : UploadLoad(r, ok)
    \/ \E r \in 1..MaxUploads, ok \in BOOLEAN : UploadTranscribe(r, ok)
    \/ \E r \in 1..MaxUploads, ok \in BOOLEAN : UploadSubtitles(r, ok)
    \/ \E r \in 1..MaxUploads : UploadRemove(r)

AppInit ==
    /\ NoApp
    /\ NewStream
    /\ NoFactory
    /\ NoListCall
    /\ NoRequest
    /\ NoSubtitles

SpecUpload == AppInit /\ [][UploadNext]_vars

(******************************* /ws/stream ********************************)
\* A websocket is the number of its connection in `connections`; the model
\* object of a connection is named by the same number. A chunk of audio is
\* the number of the binary message that brought it, counted per connection.
ClientIds == { "a", "b" }

Message(type, audio) == [type |-> type, audio |-> audio]

InfoMessage == Message("info", << >>)
ErrorMessage == Message("error", << >>)
FinalResult == Message("final_result", << >>)
ResetComplete == Message("reset_complete", << >>)
StreamingResult(audio) == Message("streaming_result", audio)

\* d[key] = value
DictSet(d, key, value) ==
    [k \in DOMAIN d \cup { key } |-> IF k = key THEN value ELSE d[k]]

\* del d[key]
DictDel(d, key) == [k \in DOMAIN d \ { key } |-> d[k]]

\* main.py lines 391-394: the entry a handler stores for its client_id
TranscriberEntry(c, generation) ==
    [model |-> c, vad_iterator |-> [connection |-> c, generation |-> generation]]

Connection(client_id, at, sent) ==
    [client_id |-> client_id, pc |-> at, connected |-> TRUE, audio_buffer |-> << >>,
     vad_iterator |-> 1, received |-> << >>, sent |-> sent, fed |-> << >>,
     outcome |-> "none"]

RECURSIVE MessagesReceived(_)
MessagesReceived(cs) ==
    IF cs = << >> THEN 0 ELSE Len(Head(cs).received) + MessagesReceived(Tail(cs))

\* the handler of connection c waits in websocket.receive() (line 414)
Receiving(c) ==
    /\ c \in 1..Len(connections)
    /\ connections[c].pc = "receive"
    /\ MessagesReceived(connections) < MaxMessages

\* the number of the chunk that the next binary message brings
NextChunk(c) ==
    1 + Cardinality({ k \in 1..Len(connections[c].received) :
                        connections[c].received[k] = "bytes" })

\* main.py lines 528-533: the finally clause of the handler
CleanedUp(c) ==
    /\ active_connections' = DictDel(active_connections, connections[c].client_id)
    /\ streaming_transcribers' = DictDel(streaming_transcribers, connections[c].client_id)

\* main.py lines 362-374: the streaming modules cannot be imported
WsImportFails(client_id) ==
    /\ Len(connections) < MaxConnections
    /\ connections' = Append(connections,
                             Connection(client_id, "closed", << ErrorMessage >>))
    /\ UNCHANGED << active_connections, streaming_transcribers, temp_files, requests,
                    uuids >>
    /\ UNCHANGED notAppVars

\* main.py lines 376-403: the connection is accepted and the model or the
\* VAD iterator cannot be constructed
WsInitFails(client_id) ==
    /\ Len(connections) < MaxConnections
    /\ connections' = Append(connections,
                             Connection(client_id, "closed",
                                        << InfoMessage, ErrorMessage >>))
    /\ UNCHANGED << active_connections, streaming_transcribers, temp_files, requests,
                    uuids >>
    /\ UNCHANGED notAppVars

\* main.py lines 376-414: the connection is accepted, its model and VAD
\* iterator are stored under client_id, its websocket is stored under
\* client_id, and the handler waits for the first message
WsConnect(client_id) ==
    /\ Len(connections) < MaxConnections
    /\ connections' = Append(connections,
                             Connection(client_id, "receive", << InfoMessage >>))
    /\ streaming_transcribers' =
         DictSet(streaming_transcribers, client_id,
                 TranscriberEntry(Len(connections) + 1, 1))
    /\ active_connections' = DictSet(active_connections, client_id, Len(connections) + 1)
    /\ UNCHANGED << temp_files, requests, uuids >>
    /\ UNCHANGED notAppVars

\* what the handler sends for a binary message (lines 480-513)
BytesSent(chunk, outcome) ==
    CASE outcome = "result" -> << StreamingResult(<< chunk >>) >>
      [] outcome = "silent" -> << >>
      [] outcome = "error" -> << ErrorMessage >>
      [] outcome = "decode_error" -> << ErrorMessage >>
      [] outcome = "send_failed" -> << >>

BytesOutcomes == { "result", "silent", "error", "decode_error", "send_failed" }

\* main.py lines 474-513: a binary message. The chunk is appended to
\* audio_buffer and passed to the VAD iterator; the speech it yields goes
\* to the model and each result is sent. outcome: a result is sent; the
\* VAD yields nothing or the model returns nothing; the VAD or the model
\* raises; struct.unpack raises; the client is gone when a result is sent
\* (every send_json of the handlers raises and the handler ends).
WsReceiveBytes(c, outcome) ==
    /\ Receiving(c)
    /\ outcome \in BytesOutcomes
    /\ LET chunk == NextChunk(c)
           decoded == outcome # "decode_error"
       IN connections' =
            [connections EXCEPT
               ![c].received = Append(@, "bytes"),
               ![c].audio_buffer = IF decoded THEN Append(@, chunk) ELSE @,
               ![c].fed = IF decoded THEN Append(@, chunk) ELSE @,
               ![c].sent = @ \o BytesSent(chunk, outcome),
               ![c].outcome = outcome,
               ![c].connected = outcome # "send_failed",
               ![c].pc = IF outcome = "send_failed" THEN "closed" ELSE "receive"]
    /\ IF outcome = "send_failed"
       THEN CleanedUp(c)
       ELSE UNCHANGED << active_connections, streaming_transcribers >>
    /\ UNCHANGED << temp_files, requests, uuids >>
    /\ UNCHANGED notAppVars

\* what would be sent if the exception were left to the handler of line 518
EndOfAudioUncaught == << ErrorMessage >>

\* what the handler sends for END_OF_AUDIO when the processing of the
\* buffer raises: the exception is caught at line 441
EndOfAudioFailed == << ErrorMessage, FinalResult >>

\* what the handler sends for END_OF_AUDIO (lines 430-451)
EndOfAudioSent(audio_buffer, outcome) ==
    CASE outcome = "send_failed" -> << >>
      [] audio_buffer = << >> /\ outcome # "send_failed" -> << FinalResult >>
      [] audio_buffer # << >> /\ outcome = "result" ->
             << StreamingResult(audio_buffer), FinalResult >>
      [] audio_buffer # << >> /\ outcome = "silent" -> << FinalResult >>
      [] audio_buffer # << >> /\ outcome = "error" -> EndOfAudioFailed

EndOutcomes == { "result", "silent", "error", "send_failed" }

\* main.py lines 427-453 and 528-533: END_OF_AUDIO. A non-empty audio_buffer
\* is concatenated and passed to the VAD iterator, the results are sent,
\* final_result is sent, the loop is left and the finally clause runs.
WsEndOfAudio(c, outcome) ==
    /\ Receiving(c)
    /\ outcome \in EndOutcomes
    /\ connections[c].audio_buffer = << >> => outcome \in { "silent", "send_failed" }
    /\ connections' =
         [connections EXCEPT
            ![c].received = Append(@, "END_OF_AUDIO"),
            ![c].fed = @ \o connections[c].audio_buffer,
            ![c].sent = @ \o EndOfAudioSent(connections[c].audio_buffer, outcome),
            ![c].outcome = outcome,
            ![c].connected = outcome # "send_failed",
            ![c].pc = "closed"]
    /\ CleanedUp(c)
    /\ UNCHANGED << temp_files, requests, uuids >>
    /\ UNCHANGED notAppVars

ResetOutcomes == { "ok", "error", "send_failed" }

\* main.py lines 455-472: RESET. model.reset() may raise; the new VAD
\* iterator is stored into the entry found under client_id, which raises
\* KeyError when there is none; then audio_buffer is emptied.
WsReset(c, outcome) ==
    /\ Receiving(c)
    /\ outcome \in ResetOutcomes
    /\ LET client_id == connections[c].client_id
           generation == connections[c].vad_iterator + 1
           stored == outcome # "error" /\ client_id \in DOMAIN streaming_transcribers
       IN /\ connections' =
               [connections EXCEPT
                  ![c].received = Append(@, "RESET"),
                  ![c].vad_iterator = IF outcome = "error" THEN @ ELSE generation,
                  ![c].audio_buffer = IF stored THEN << >> ELSE @,
                  ![c].sent = @ \o (IF outcome = "send_failed" THEN << >>
                                    ELSE IF stored THEN << ResetComplete >>
                                    ELSE << ErrorMessage >>),
                  ![c].outcome = IF outcome = "ok" /\ ~stored THEN "error" ELSE outcome,
                  ![c].connected = outcome # "send_failed",
                  ![c].pc = IF outcome = "send_failed" THEN "closed" ELSE "receive"]
          /\ LET written ==
                   IF stored
                   THEN [streaming_transcribers EXCEPT
                           ![client_id].vad_iterator =
                               [connection |-> c, generation |-> generation]]
                   ELSE streaming_transcribers
             IN IF outcome = "send_failed"
                THEN /\ streaming_transcribers' = DictDel(written, client_id)
                     /\ active_connections' = DictDel(active_connections, client_id)
                ELSE /\ streaming_transcribers' = written
                     /\ UNCHANGED active_connections
    /\ UNCHANGED << temp_files, requests, uuids >>
    /\ UNCHANGED notAppVars

\* main.py lines 423-427, 455: a text message that is neither END_OF_AUDIO
\* nor RESET is logged
WsOtherText(c) ==
    /\ Receiving(c)
    /\ connections' = [connections EXCEPT ![c].received = Append(@, "text"),
                                          ![c].outcome = "none"]
    /\ UNCHANGED << active_connections, streaming_transcribers, temp_files, requests,
                    uuids >>
    /\ UNCHANGED notAppVars

\* main.py lines 413-420 and 528-533: the client goes away; receive()
\* raises, the loop is left and the finally clause runs
WsDisconnect(c) ==
    /\ c \in 1..Len(connections)
    /\ connections[c].pc = "receive"
    /\ connections' = [connections EXCEPT ![c].connected = FALSE, ![c].pc = "closed"]
    /\ CleanedUp(c)
    /\ UNCHANGED << temp_files, requests, uuids >>
    /\ UNCHANGED notAppVars

WsNext ==
    \/ \E client_id \in ClientIds : WsImportFails(client_id)
    \/ \E client_id \in ClientIds : WsInitFails(client_id)
    \/ \E client_id \in ClientIds : WsConnect(client_id)
    \/ \E c \in 1..MaxConnections, outcome \in BytesOutcomes : WsReceiveBytes(c, outcome)
    \/ \E c \in 1..MaxConnections, outcome \in EndOutcomes : WsEndOfAudio(c, outcome)
    \/ \E c \in 1..MaxConnections, outcome \in ResetOutcomes : WsReset(c, outcome)
    \/ \E c \in 1..MaxConnections : WsOtherText(c)
    \/ \E c \in 1..MaxConnections : WsDisconnect(c)

SpecWs == AppInit /\ [][WsNext]_vars

\* one client: the same handler with a single connection made
WsSessionNext ==
    \/ connections = << >> /\ \E client_id \in ClientIds : WsImportFails(client_id)
    \/ connections = << >> /\ \E client_id \in ClientIds : WsInitFails(client_id)
    \/ connections = << >> /\ \E client_id \in ClientIds : WsConnect(client_id)
    \/ \E outcome \in BytesOutcomes : WsReceiveBytes(1, outcome)
    \/ \E outcome \in EndOutcomes : WsEndOfAudio(1, outcome)
    \/ \E outcome \in ResetOutcomes : WsReset(1, outcome)
    \/ WsOtherText(1)
    \/ WsDisconnect(1)

SpecWsSession == AppInit /\ [][WsSessionNext]_vars

(********************************* claims **********************************)
\* global ordering invariant of a segment stream
Ordered(stream) ==
    \A k \in 1..(Len(stream) - 1) : stream[k].end <= stream[k + 1].start

(**************************** claims: windowing ****************************)
Window(k) == calls[k].window

LoopFinished == ppc \in { "merge", "merging", "returned" }

\* C3: when the engines fail for one window of a file of several windows,
\* the request does not raise: the remaining windows are still processed
\* and the request returns the segments of the other windows in time order.
C3_LostWindowTolerated ==
    (total_duration > segment_duration /\ \E k \in 1..Len(calls) : ~calls[k].ok)
    => /\ response.kind # "raised"
       /\ ppc # "raised"
       /\ ppc = "returned" =>
            /\ Window(Len(calls)).end = total_duration
            /\ \A k \in 1..(Len(response.segments) - 1) :
                 heap[response.segments[k]].start <= heap[response.segments[k + 1]].start

\* C4: the windows cover [0, total_duration) without a gap: the first
\* window starts at 0, every later window starts no later than the end of
\* the window before it, and once the loop has finished the last window
\* ends at total_duration and every tick of the audio lies in a window.
C4_WindowsCover ==
    /\ calls # << >> => Window(1).start = 0
    /\ \A k \in 1..(Len(calls) - 1) : Window(k + 1).start <= Window(k).end
    /\ LoopFinished =>
        /\ calls # << >>
        /\ Window(Len(calls)).end = total_duration
        /\ \A t \in 0..(total_duration - 1) :
             \E k \in 1..Len(calls) : Window(k).start <= t /\ t < Window(k).end

\* C4 witness: a request of three windows or more has returned
C4_Witness ==
    /\ ppc = "returned"
    /\ Len(calls) >= 3
    /\ total_duration > 0

\* C5: a single window [0, total_duration] when total_duration <=
\* segment_duration; otherwise start[0] = 0,
\* end[i] = min(start[i] + segment_duration, total_duration) and
\* start[i+1] = end[i] - overlap_duration, every window but the last has
\* length segment_duration, consecutive windows overlap by
\* overlap_duration, and no window follows one that ends at total_duration.
C5_WindowSequence ==
    /\ (ppc \notin { "start", "load_raised" } /\ total_duration <= segment_duration) =>
        /\ Len(calls) <= 1
        /\ calls # << >> => Window(1) = [start |-> 0, end |-> total_duration]
    /\ \A k \in 1..Len(calls) :
        /\ Window(k).start =
             (IF k = 1 THEN 0 ELSE Window(k - 1).end - overlap_duration)
        /\ Window(k).end =
             (IF Window(k).start + segment_duration <= total_duration
              THEN Window(k).start + segment_duration ELSE total_duration)
        /\ k < Len(calls) =>
            /\ Window(k).end - Window(k).start = segment_duration
            /\ Window(k).end - Window(k + 1).start = overlap_duration
            /\ Window(k).end # total_duration
    /\ (LoopFinished /\ calls # << >>) => Window(Len(calls)).end = total_duration

\* C5 witness: a full window followed by a shorter last one
C5_Witness ==
    /\ ppc = "returned"
    /\ Len(calls) >= 2
    /\ Window(1).end - Window(1).start = segment_duration
    /\ Window(Len(calls)).end - Window(Len(calls)).start < segment_duration

\* C6: an empty sample buffer is refused with InvalidBufferError: the
\* request raises that error, makes no engine call and returns no segments.
C6_EmptyBufferRejected ==
    (ppc \in { "returned", "raised" } /\ total_duration = 0)
    => /\ response.kind = "raised"
       /\ response.error = "InvalidBufferError"
       /\ calls = << >>

\* C7: the segments and the words transcribe_audio returns carry the
\* start and end the alignment engine reported plus the offset, and the
\* offset of a window's call is the window's start (0 for a short audio).
C7_TimestampsAbsolute ==
    [][ (Len(calls') = Len(calls) + 1 /\ calls'[Len(calls')].ok)
        => LET call == calls'[Len(calls')]
               offset == IF ppc = "loop" THEN segment_start ELSE 0
               new == SubSeq(heap', Len(heap) + 1, Len(heap'))
           IN  /\ call.offset = offset
               /\ call.window.start = offset
               /\ Len(new) = Len(call.raw)
               /\ \A k \in 1..Len(new) :
                    /\ new[k].start = call.raw[k].start + offset
                    /\ new[k].end = call.raw[k].end + offset
                    /\ Len(new[k].words) = Len(call.raw[k].words)
                    /\ \A j \in 1..Len(new[k].words) :
                         /\ new[k].words[j].start = call.raw[k].words[j].start + offset
                         /\ new[k].words[j].end = call.raw[k].words[j].end + offset
      ]_vars

\* C7 witness: a window that starts after 0 produced a segment with a word
C7_Witness ==
    \E k \in 1..Len(calls) :
        /\ calls[k].ok
        /\ calls[k].offset > 0
        /\ calls[k].raw # << >>
        /\ \E r \in 1..Len(heap) :
             /\ heap[r].start = calls[k].raw[1].start + calls[k].offset
             /\ heap[r].words # << >>

\* C8: with language "auto" or None, language detection runs at most once
\* per request and every window's ASR call gets the language detected for
\* the first window.
C8_LanguagePinned ==
    NeedsDetection(language)
    => /\ Cardinality({ k \in 1..Len(calls) : calls[k].detected }) <= 1
       /\ \A k \in 1..Len(calls) : calls[k].language = calls[1].language

\* C21: within a request the windows are transcribed one at a time in
\* strictly increasing start order: a transcribe_audio call is made only
\* when every earlier call of the request has returned, for a window that
\* starts after all earlier windows, and before reconciliation; and
\* _merge_overlapping_segments is called only after the window that ends
\* at total_duration has been transcribed, on the segments of all windows.
C21_WindowsSequential ==
    [][ /\ calls' # calls
            => /\ Len(calls') = Len(calls) + 1
               /\ SubSeq(calls', 1, Len(calls)) = calls
               /\ pc = "none"
               /\ \A k \in 1..Len(calls) :
                    /\ calls[k].ok
                    /\ calls[k].window.start < calls'[Len(calls')].window.start
        /\ (pc' = "merge_call" /\ pc # "merge_call")
            => /\ calls' = calls
               /\ calls # << >>
               /\ \A k \in 1..Len(calls) : calls[k].ok
               /\ calls[Len(calls)].window.end = total_duration
               /\ segments' = all_segments
      ]_vars

\* C21 witness: three windows were transcribed and then reconciled
C21_Witness ==
    /\ ppc = "returned"
    /\ pc = "merge_done"
    /\ Len(calls) = 3
    /\ calls[1].window.start < calls[2].window.start
    /\ calls[2].window.start < calls[3].window.start

\* C24: the segments a successful transcribe_audio call returns are in
\* non-decreasing order of start, in whatever order the engine reported
\* them.
C24_TranscribeSorted ==
    [][ (calls' # calls /\ calls'[Len(calls')].ok)
            => LET out == SubSeq(heap', Len(heap) + 1, Len(heap'))
               IN  \A i, j \in 1..Len(out) : i < j => out[i].start <= out[j].start
      ]_vars

\* C25: once cancellation of a request has been asked for, no further
\* window of that request is passed to the ASR engine.
C25_CancelStopsWindows ==
    [][ cancel_requested => calls' = calls ]_vars

\* C28: with total_duration > segment_duration and
\* 0 < overlap_duration < segment_duration the windowing loop terminates:
\* every window starts later than the one before it, the loop once
\* entered is left, and it is left after a window that ends at
\* total_duration (or by the error of a transcribe_audio call, which ends
\* the request); no window follows the one that ends at total_duration.
C28_LoopTerminates ==
    /\ [][ calls' # calls
              => \A k \in 1..Len(calls) :
                    /\ calls[k].window.start < calls'[Len(calls')].window.start
                    /\ calls[k].window.end # total_duration
         ]_vars
    /\ (ppc = "loop")
          ~> \/ /\ ppc = "merge"
                /\ calls # << >>
                /\ calls[Len(calls)].ok
                /\ calls[Len(calls)].window.end = total_duration
             \/ ppc = "raised"

\* C28 witness: the loop ran three windows and was left after the one that
\* ends at total_duration
C28_Witness ==
    /\ ppc = "merge"
    /\ total_duration > segment_duration
    /\ Len(calls) = 3
    /\ calls[3].window.end = total_duration
    /\ \A k \in 1..2 : calls[k].window.start < calls[k + 1].window.start

(***************************** claims: factory *****************************)
\* C22: a failure to load the ASR model or the alignment model makes the
\* constructor, and so get_transcriber, raise; no transcriber whose model
\* is None is returned to a caller or held in the factory cache.
C22_LoadFailurePropagates ==
    /\ (got.asr = "failed" \/ got.align = "failed") => got.kind = "raised"
    /\ got.kind = "returned" => transcribers[got.transcriber].model # "None"
    /\ \A k \in DOMAIN instances : transcribers[instances[k]].model # "None"

\* C32: two get_transcriber calls for the same configuration with
\* force_new=False return the same instance unless clear_instances or a
\* force_new=True call for that configuration came in between; a
\* force_new=True call returns a new instance, which is the one returned
\* for that configuration from then on, and changes the instance of no
\* other configuration.
C32_SameInstancePerConfig ==
    [][ (got' # got /\ got'.kind = "returned")
          => /\ (~got'.force_new /\ served[got'.config] # None)
                    => got'.transcriber = served[got'.config]
             /\ got'.force_new => got'.transcriber \notin 1..Len(transcribers)
             /\ served'[got'.config] = got'.transcriber
             /\ \A config \in Configs \ { got'.config } : served'[config] = served[config]
             /\ \A key \in DOMAIN instances :
                    key \in DOMAIN instances'
                    /\ (instances'[key] = instances[key] \/ instances'[key] = got'.transcriber)
      ]_vars

\* C32 witness: an instance was replaced by a force_new call while the
\* instance of another configuration stayed in the cache
C32_Witness ==
    /\ got.kind = "returned"
    /\ got.force_new
    /\ got.transcriber = 3
    /\ \E config \in Configs \ { got.config } : served[config] = 1

(**************************** claims: subtitles ****************************)
IsDigit(ch) == ch \in { "0", "1", "2", "3", "4", "5", "6", "7", "8", "9" }

DigitValue(ch) == CHOOSE d \in 0..9 : Digit(d) = ch

RECURSIVE NumberOf(_)
NumberOf(str) ==
    IF str = << >> THEN 0
    ELSE 10 * NumberOf(SubSeq(str, 1, Len(str) - 1)) + DigitValue(str[Len(str)])

\* HH:MM:SS<sep>mmm
IsTimestamp(str, sep) ==
    /\ Len(str) = 12
    /\ \A k \in { 1, 2, 4, 5, 7, 8, 10, 11, 12 } : IsDigit(str[k])
    /\ str[3] = ":"
    /\ str[6] = ":"
    /\ str[9] = sep

Arrow == << " ", "-", "-", ">", " " >>

\* start --> end, both HH:MM:SS<sep>mmm
IsTimingLine(line, sep) ==
    /\ Len(line) = 29
    /\ IsTimestamp(SubSeq(line, 1, 12), sep)
    /\ SubSeq(line, 13, 17) = Arrow
    /\ IsTimestamp(SubSeq(line, 18, 29), sep)

\* the text generate_subtitles produced: returned, or written to the file
\* whose path is returned
Produced == sub_result.file

\* C23: generate_subtitles produces text for each of srt, vtt and json.
\* For n segments the SRT text is n cues, cue k made of the number k, a
\* timing line with HH:MM:SS,mmm stamps and the text of segment k; the
\* VTT text is the WEBVTT header followed by n cues without numbers,
\* with HH:MM:SS.mmm stamps, cue k carrying the text of segment k; the
\* JSON output is the segment list itself.
C23_SubtitleFormats ==
    (sub_call.fn = "generate_subtitles" /\ sub_result.kind # "pending")
        => /\ sub_result.kind = "returned"
           /\ LET sgs == sub_call.segments
                  n == Len(sgs)
                  lines == Produced.lines
              IN  /\ sub_call.format = "srt"
                      => /\ Len(lines) = 4 * n
                         /\ \A k \in 1..n :
                              /\ lines[4 * k - 3] = DecimalString(k)
                              /\ IsTimingLine(lines[4 * k - 2], ",")
                              /\ lines[4 * k - 1] = Strip(sgs[k].text)
                              /\ lines[4 * k] = << >>
                  /\ sub_call.format = "vtt"
                      => /\ Len(lines) = 2 + 3 * n
                         /\ lines[1] = << "W", "E", "B", "V", "T", "T" >>
                         /\ \A k \in 1..n :
                              /\ IsTimingLine(lines[3 * k], ".")
                              /\ lines[3 * k + 1] = Strip(sgs[k].text)
                              /\ lines[3 * k + 2] = << >>
                  /\ sub_call.format = "json" => Produced.json = sgs

\* C30: for every time t >= 0 in whole milliseconds, _format_timestamp of
\* each class returns HH:MM:SS and mmm with MM < 60, SS < 60, mmm < 1000
\* and HH*3600000 + MM*60000 + SS*1000 + mmm = t, also for t of 24 hours
\* or more.
C30_TimestampExact ==
    (sub_call.fn = "_format_timestamp" /\ sub_result.kind # "pending")
        => /\ sub_result.kind = "returned"
           /\ LET str == sub_result.value
                  HH == NumberOf(SubSeq(str, 1, 2))
                  MM == NumberOf(SubSeq(str, 4, 5))
                  SS == NumberOf(SubSeq(str, 7, 8))
                  mmm == NumberOf(SubSeq(str, 10, 12))
              IN  /\ IsTimestamp(str, str[9])
                  /\ MM < 60
                  /\ SS < 60
                  /\ mmm < 1000
                  /\ HH * 3600000 + MM * 60000 + SS * 1000 + mmm = sub_call.seconds

(************************* claims: reconciliation **************************)

\* the place of a segment object in the sorted input
PositionOf(ref) == CHOOSE p \in 1..Len(sorted_segments) : sorted_segments[p] = ref

\* the output segment an input place belongs to: the last emitted object
\* at or before that place
OwnerOf(p) ==
    CHOOSE k \in 1..Len(merged) :
        /\ PositionOf(merged[k]) <= p
        /\ \A j \in 1..Len(merged) : PositionOf(merged[j]) <= p => j <= k

\* C29: in _merge_overlapping_segments, when next does not overlap
\* current (current.end < next.start) or overlaps it by at most half of
\* next's duration, current is appended to the output with its fields
\* unchanged and next becomes current; the last current is flushed after
\* the loop. So the output is a selection of the input objects in sorted
\* order that starts with the first, every other input segment lies
\* inside the span of the one output segment that absorbed it, and the
\* output has no more segments than the input.
C29_FlushKeepsCurrent ==
    /\ [][ (pc = "merge_loop" /\ idx <= Len(sorted_segments))
              => LET cur == heap[current]
                     nxt == heap[sorted_segments[idx]]
                 IN  (\/ cur.end < nxt.start
                      \/ 2 * (cur.end - nxt.start) <= nxt.end - nxt.start)
                        => /\ merged' = Append(merged, current)
                           /\ heap'[current] = heap[current]
                           /\ current' = sorted_segments[idx]
         ]_vars
    /\ [][ (pc = "merge_loop" /\ pc' = "merge_done")
              => /\ merged' = Append(merged, current)
                 /\ Len(merged') <= Len(segments)
         ]_vars
    /\ []((pc = "merge_done" /\ segments = << >>) => merged = << >>)
    /\ []((pc = "merge_done" /\ segments # << >>)
            => /\ merged[1] = sorted_segments[1]
               /\ \A i, j \in 1..Len(merged) :
                    i < j => PositionOf(merged[i]) < PositionOf(merged[j])
               /\ \A p \in 1..Len(sorted_segments) :
                    LET owner == heap[merged[OwnerOf(p)]]
                        input == heap[sorted_segments[p]]
                    IN  /\ owner.start <= input.start
                        /\ input.end <= owner.end)

\* C29 witness: of three segments the first absorbed the second and was
\* then flushed before the third, which does not overlap it
C29_Witness ==
    /\ pc = "merge_done"
    /\ Len(sorted_segments) = 3
    /\ merged = << sorted_segments[1], sorted_segments[3] >>
    /\ branch = "no_overlap"
    /\ heap[merged[1]].end < heap[merged[2]].start

\* C31: for inputs given in any order the output of
\* _merge_overlapping_segments is ordered by non-decreasing start, and
\* when every input segment has start <= end so has every output segment.
C31_MergeOutputByStart ==
    pc = "merge_done"
    => /\ \A i, j \in 1..Len(MergeResult) :
            i < j => MergeResult[i].start <= MergeResult[j].start
       /\ (\A k \in 1..Len(given) : given[k].start <= given[k].end)
            => \A k \in 1..Len(MergeResult) : MergeResult[k].start <= MergeResult[k].end

\* C31 witness: three segments given latest first came out as three
\* segments
C31_Witness ==
    /\ pc = "merge_done"
    /\ Len(given) = 3
    /\ given[1].start > given[2].start
    /\ given[2].start > given[3].start
    /\ Len(merged) = 3

\* C26: _merge_overlapping_segments does not mutate what it consumes: when
\* it has returned, the input list has the length and order it was given
\* with and every segment object in it has the start, end, text, words
\* and id it had at the call.
C26_InputsNotMutated ==
    pc = "merge_done" => Deref(heap, segments) = given

\* C1: for every list of segments (start <= end, any order) the stream
\* returned by _merge_overlapping_segments has
\* segment[i].end <= segment[i+1].start for every adjacent pair.
C1_MergeOutputOrdered ==
    pc = "merge_done" => Ordered(MergeResult)

\* C9: when current.end >= next.start and
\* current.end - next.start > 0.5 * (next.end - next.start), the iteration
\* merges next into current and emits nothing: current stays the same
\* object with the same start, its end becomes max(current.end, next.end),
\* and its text becomes current.text + " " + next.text unless next.text
\* is a substring of current.text, in which case it is unchanged.
C9_MergeRule ==
    [][ ( /\ pc = "merge_loop"
          /\ idx <= Len(sorted_segments)
          /\ heap[current].end >= heap[sorted_segments[idx]].start
          /\ 2 * (heap[current].end - heap[sorted_segments[idx]].start)
                > heap[sorted_segments[idx]].end - heap[sorted_segments[idx]].start )
        => LET cur == heap[current]
               nxt == heap[sorted_segments[idx]]
               after == heap'[current]
           IN  /\ current' = current
               /\ merged' = merged
               /\ idx' = idx + 1
               /\ after.start = cur.start
               /\ after.end = (IF cur.end >= nxt.end THEN cur.end ELSE nxt.end)
               /\ after.text =
                    (IF \E k \in 0..(Len(cur.text) - Len(nxt.text)) :
                            SubSeq(cur.text, k + 1, k + Len(nxt.text)) = nxt.text
                     THEN cur.text
                     ELSE cur.text \o << " " >> \o nxt.text)
               /\ heap'[sorted_segments[idx]] = nxt
      ]_vars

\* C9 witness: a merge extended current beyond its old end and appended a
\* text; a later merge left the end and the text alone
C9_Witness ==
    /\ pc = "merge_loop"
    /\ branch = "merge"
    /\ merged = << >>
    /\ idx = 4
    /\ heap[current].text = << "a", " ", "b" >>
    /\ heap[current].end > heap[sorted_segments[3]].end
    /\ heap[current].end = heap[sorted_segments[2]].end

\* C10: on a merge, current.words becomes its old value followed by the
\* words of next, in their order, that have no word of the old
\* current.words with the same text and a start less than 0.1 s away.
C10_WordDedup ==
    [][ ( /\ pc = "merge_loop"
          /\ idx <= Len(sorted_segments)
          /\ branch' = "merge"
          /\ idx' = idx + 1 )
        => LET old == heap[current].words
               nxt == heap[sorted_segments[idx]].words
               new == heap'[current].words
               Fresh(w) == ~ \E k \in 1..Len(old) :
                               /\ old[k].word = w.word
                               /\ old[k].start - w.start < WORD_TOLERANCE
                               /\ w.start - old[k].start < WORD_TOLERANCE
           IN  new = old \o SelectSeq(nxt, Fresh)
      ]_vars

\* C10 witness: a merge of two two-word segments appended one word of next
\* and skipped the other
C10_Witness ==
    /\ pc = "merge_loop"
    /\ branch = "merge"
    /\ Len(sorted_segments) = 2
    /\ idx = 3
    /\ Len(heap[sorted_segments[2]].words) = 2
    /\ Len(heap[current].words) = 3

\* the number of places where s occurs in t
Occurrences(s, t) ==
    Cardinality({ k \in 0..(Len(t) - Len(s)) : SubSeq(t, k + 1, k + Len(s)) = s })

IsPrefix(s, t) == Len(s) <= Len(t) /\ SubSeq(t, 1, Len(s)) = s

\* C11: when the segment merged into current repeats the text of current
\* (its text begins with current's text), the merged text does not repeat
\* that speech: current's old text occurs in the merged text as often as
\* in the text of next, so "hello world" merged with "hello world there"
\* contains "hello world" once, in one segment spanning [8.0, 9.8].
C11_TextDeduplicated ==
    [][ ( /\ pc = "merge_loop"
          /\ idx <= Len(sorted_segments)
          /\ branch' = "merge"
          /\ idx' = idx + 1
          /\ heap[current].text # << >>
          /\ IsPrefix(heap[current].text, heap[sorted_segments[idx]].text) )
        => /\ heap'[current].start = heap[current].start
           /\ heap'[current].end = Max(heap[current].end, heap[sorted_segments[idx]].end)
           /\ Occurrences(heap[current].text, heap'[current].text)
                = Occurrences(heap[current].text, heap[sorted_segments[idx]].text)
      ]_vars

\* C12: for a non-empty input, the k-th segment (counted from 0) of the
\* list _merge_overlapping_segments returns has id k, whatever was merged.
C12_MergeIdsDense ==
    (pc = "merge_done" /\ given # << >>)
    => /\ MergeResult # << >>
       /\ \A k \in 1..Len(MergeResult) : MergeResult[k].id = k - 1

\* C12 witness: three segments were given, one was merged away and two
\* came back
C12_Witness ==
    /\ pc = "merge_done"
    /\ Len(given) = 3
    /\ Len(merged) = 2
    /\ MergeResult[2].id = 1

\* every segment of the stream that has words starts at its first word's
\* start and ends at its last word's end
SpansWords(stream) ==
    \A k \in 1..Len(stream) :
        stream[k].words # << >>
        => /\ stream[k].start = stream[k].words[1].start
           /\ stream[k].end = stream[k].words[Len(stream[k].words)].end

\* C20: when every segment given to _merge_overlapping_segments that has
\* words starts at its first word's start and ends at its last word's end,
\* so does every segment of the list it returns.
C20_SegmentsSpanWords ==
    (pc = "merge_done" /\ SpansWords(given)) => SpansWords(MergeResult)

(*************************** claims: normalizer ****************************)
\* the Segment invariants of a stream: start <= end, the words in time
\* order, and the segment spanning its words
SegmentInvariants(stream) ==
    \A k \in 1..Len(stream) :
        LET sg == stream[k] IN
        /\ sg.start <= sg.end
        /\ \A j \in 1..Len(sg.words) : sg.words[j].start <= sg.words[j].end
        /\ \A j \in 1..(Len(sg.words) - 1) : sg.words[j].end <= sg.words[j + 1].start
        /\ sg.words # << >> =>
            /\ sg.start = sg.words[1].start
            /\ sg.end = sg.words[Len(sg.words)].end

RECURSIVE AllWords(_)
AllWords(stream) ==
    IF stream = << >> THEN << >> ELSE Head(stream).words \o AllWords(Tail(stream))

\* the segments given to the function, in start-time order
GivenByStart == Deref(given, SortedByStart(given, [k \in 1..Len(given) |-> k]))

\* C14: a call of optimize_segments ends with an output that holds every
\* word of the input once: the word lists of the output segments, one
\* after the other, are the word lists of the input segments taken in
\* start-time order, and an input segment shorter than MIN_DURATION with
\* no neighbour closer than 0.3 s is a segment of the output.
C14_NoDataLoss ==
    pc \in { "opt_done", "opt_raised" }
    => /\ pc = "opt_done"
       /\ AllWords(OptResult) = AllWords(GivenByStart)
       /\ \A k \in 1..Len(GivenByStart) :
            LET sg == GivenByStart[k] IN
            ( /\ sg.end - sg.start < MIN_DURATION
              /\ k > 1 => sg.start - GivenByStart[k - 1].end >= MERGE_GAP
              /\ k < Len(GivenByStart) => GivenByStart[k + 1].start - sg.end >= MERGE_GAP )
            => \E j \in 1..Len(OptResult) : OptResult[j] = sg

\* pass 1 of the two-pass procedure: the short-segment merge over the
\* whole stream; cur is the segment being grown (<< >> for none yet)
RECURSIVE PassOne(_, _, _)
PassOne(rest, cur, out) ==
    IF rest = << >> THEN out \o cur
    ELSE IF cur = << >> THEN PassOne(Tail(rest), << Head(rest) >>, out)
    ELSE LET c == cur[1]
             sg == Head(rest)
         IN  IF c.end - c.start < MIN_DURATION /\ sg.start - c.end < MERGE_GAP
             THEN PassOne(Tail(rest),
                          << [c EXCEPT !.end = sg.end,
                                       !.text = c.text \o << " " >> \o sg.text,
                                       !.words = c.words \o sg.words] >>,
                          out)
             ELSE PassOne(Tail(rest), << sg >>, Append(out, c))

\* pass 2: every segment that still exceeds MAX_DURATION is replaced by
\* what _split_long_segment makes of it
RECURSIVE PassTwo(_)
PassTwo(stream) ==
    IF stream = << >> THEN [raised |-> FALSE, result |-> << >>]
    ELSE LET sg == Head(stream)
             first == IF sg.end - sg.start > MAX_DURATION
                      THEN SplitLongSegment(sg)
                      ELSE [raised |-> FALSE, result |-> << sg >>]
             others == PassTwo(Tail(stream))
         IN  IF first.raised \/ others.raised
             THEN [raised |-> TRUE, result |-> << >>]
             ELSE [raised |-> FALSE, result |-> first.result \o others.result]

TwoPass == PassTwo(PassOne(GivenByStart, << >>, << >>))

\* C27: optimize_segments, one scan that merges short segments and splits
\* a long current when it is flushed, ends as the two-pass procedure does
\* on the same stream: it returns the list the two passes return, and it
\* raises exactly when a split of pass 2 raises.
C27_ScanEqualsTwoPass ==
    /\ pc = "opt_done" => (~TwoPass.raised /\ OptResult = TwoPass.result)
    /\ pc = "opt_raised" => TwoPass.raised

\* C27 witness: a call returned a list after a short segment had absorbed
\* its neighbour and grown longer than MAX_DURATION, so that the merged
\* segment went through the split when it was flushed
C27_Witness ==
    /\ pc = "opt_done"
    /\ optimized # << >>
    /\ \E k \in 1..Len(given) :
        /\ heap[k] # given[k]
        /\ given[k].end - given[k].start < MIN_DURATION
        /\ heap[k].end - heap[k].start > MAX_DURATION
        /\ \A j \in 1..Len(optimized) : optimized[j] # k

\* the segments a step added to the list optimized
Added == Deref(heap', SubSeq(optimized', Len(optimized) + 1, Len(optimized')))

\* the words of the segment that is being split
SplitWords == heap[current].words

\* C15: a call of _split_long_segment returns sub-segments that partition
\* the words of the segment in order: their word lists, one after the
\* other, are the segment's words; no sub-segment is empty; a word that
\* bears one of the marks . ! ? and their full-width forms or the
\* full-width comma is the last word of its sub-segment; and every
\* sub-segment but the last ends with such a word.
C15_SplitPartitionsWords ==
    [][ pc = "opt_split"
        => /\ pc' # "opt_raised"
           /\ AllWords(Added) = SplitWords
           /\ \A k \in 1..Len(Added) :
                LET ws == Added[k].words IN
                /\ ws # << >>
                /\ \A j \in 1..(Len(ws) - 1) :
                     ~ \E c \in 1..Len(ws[j].word) : ws[j].word[c] \in PunctuationMarks
                /\ k < Len(Added) =>
                     \E c \in 1..Len(ws[Len(ws)].word) :
                        ws[Len(ws)].word[c] \in PunctuationMarks
      ]_vars

\* the positions of the words of the split segment that bear a mark
MarkedWords ==
    { j \in 1..Len(SplitWords) :
        \E c \in 1..Len(SplitWords[j].word) : SplitWords[j].word[c] \in PunctuationMarks }

\* C16: every sub-segment a split returns starts at its first word's start
\* and ends at its last word's end; and when exactly one word of the
\* segment bears a mark, word k, and it is not the last word, the split
\* returns two sub-segments, the first ending at word k's end and the
\* second starting at word k+1's start, whatever their durations.
C16_SplitBoundsFromWords ==
    [][ pc = "opt_split"
        => /\ \A k \in 1..Len(Added) :
                /\ Added[k].words # << >>
                /\ Added[k].start = Added[k].words[1].start
                /\ Added[k].end = Added[k].words[Len(Added[k].words)].end
           /\ \A k \in 1..(Len(SplitWords) - 1) :
                MarkedWords = { k }
                => /\ pc' # "opt_raised"
                   /\ Len(Added) = 2
                   /\ Added[1].end = SplitWords[k].end
                   /\ Added[2].start = SplitWords[k + 1].start
      ]_vars

\* C17: a segment longer than MAX_DURATION that has no words, and that no
\* shorter segment before it absorbs, is in the output of optimize_segments
\* exactly once, with the start, end and text it had.
C17_WordlessLongKept ==
    pc = "opt_done"
    => \A k \in 1..Len(GivenByStart) :
         LET sg == GivenByStart[k] IN
         ( /\ sg.end - sg.start > MAX_DURATION
           /\ sg.words = << >>
           /\ k > 1 => sg.start - GivenByStart[k - 1].end >= MERGE_GAP )
         => Cardinality({ j \in 1..Len(OptResult) :
                            /\ OptResult[j].start = sg.start
                            /\ OptResult[j].end = sg.end
                            /\ OptResult[j].text = sg.text }) = 1

\* C18: the k-th segment (counted from 0) of the list optimize_segments
\* returns has id k, whatever was merged or split.
C18_OptimizeIdsDense ==
    pc = "opt_done"
    => \A k \in 1..Len(OptResult) : OptResult[k].id = k - 1

\* a time-ordered stream whose segments all last between MIN_DURATION and
\* MAX_DURATION
Normalized(stream) ==
    /\ \A k \in 1..(Len(stream) - 1) : stream[k].start <= stream[k + 1].start
    /\ \A k \in 1..Len(stream) :
         /\ stream[k].end - stream[k].start >= MIN_DURATION
         /\ stream[k].end - stream[k].start <= MAX_DURATION

\* C19: given a time-ordered stream whose segments all last between
\* MIN_DURATION and MAX_DURATION, optimize_segments returns, and returns
\* the same segment objects in the same order with every field as it was;
\* the output is again such a stream, so a second application returns it
\* unchanged as well.
C19_NormalizedUnchanged ==
    (pc \in { "opt_done", "opt_raised" } /\ Normalized(given))
    => /\ pc = "opt_done"
       /\ optimized = [k \in 1..Len(given) |-> k]
       /\ OptResult = given
       /\ Normalized(OptResult)

\* C19 witness: a stream of a segment of MIN_DURATION and two of
\* MAX_DURATION, 0.2 s apart, came back
C19_Witness ==
    /\ pc = "opt_done"
    /\ Normalized(given)
    /\ Len(given) = 3
    /\ Len(optimized) = 3
    /\ given[1].end - given[1].start = MIN_DURATION
    /\ given[2].end - given[2].start = MAX_DURATION
    /\ given[2].start - given[1].end < MERGE_GAP

\* C2: when the stream given to optimize_segments satisfies the global
\* ordering invariant and every segment satisfies the Segment invariants,
\* the stream optimize_segments returns satisfies the global ordering
\* invariant.
C2_OptimizeKeepsOrder ==
    (pc = "opt_done" /\ Ordered(given) /\ SegmentInvariants(given))
    => Ordered(OptResult)

\* C2 witness: a stream of three segments came back as two, the first of
\* them the result of a merge
C2_Witness ==
    /\ pc = "opt_done"
    /\ Ordered(given) /\ SegmentInvariants(given)
    /\ Len(given) = 3
    /\ Len(optimized) = 2
    /\ OptResult[1].end > given[optimized[1]].end
    /\ OptResult[1].end <= OptResult[2].start

(**************************** claims: streaming *****************************)
\* the workers that have not ended
AliveWorkers == { w \in 1..Len(workers) : Alive(w) }

\* C33: stream_transcribe yields every segment the worker appends to
\* current_segments once and in append order, under every interleaving:
\* what has been yielded is always a prefix of current_segments, and when
\* the generator is finished and the workers have ended everything that
\* was appended has been yielded.
C33_YieldsEachSegmentOnce ==
    /\ gpc # "none" => IsPrefix(yielded, current_segments)
    /\ (gpc = "g_done" /\ AliveWorkers = { }) => yielded = current_segments

\* C34: whenever is_running is true a worker thread is alive (and so
\* consumes the queue), also after an earlier finalize() made the worker
\* take the end sentinel.
C34_RunningMeansWorkerAlive ==
    is_running => AliveWorkers # { }

\* the chunks handed to _transcribe_audio so far, call after call
RECURSIVE TranscribedChunks(_)
TranscribedChunks(cs) ==
    IF cs = << >> THEN << >> ELSE Head(cs).audio \o TranscribedChunks(Tail(cs))

\* the sentinels among the first k items put
SentinelsUpTo(k) == Cardinality({ j \in 1..k : put_log[j] = EndSentinel })

SentinelsQueued ==
    Cardinality({ j \in 1..Len(audio_queue) : audio_queue[j] = EndSentinel })

\* C35: as long as stop_processing has not been called, the chunks handed
\* to _transcribe_audio, call after call, are the chunks put on the queue
\* in arrival order, each once; when a worker has taken an end sentinel
\* every chunk put before that sentinel has been handed over; a worker
\* that takes a chunk hands its buffer over exactly when the buffer then
\* holds more than 3 s of samples, and has an empty buffer after that call.
C35_ChunksTranscribedOnceInOrder ==
    /\ [](~stop_called
           => /\ IsPrefix(TranscribedChunks(transcribe_calls), [k \in 1..ChunksPut |-> k])
              /\ \A k \in 1..Len(put_log) :
                    ( /\ put_log[k] = EndSentinel
                      /\ SentinelsUpTo(k) <= SentinelsPut - SentinelsQueued )
                    => \A j \in 1..(k - 1) :
                         put_log[j] # EndSentinel
                         => \E n \in 1..Len(TranscribedChunks(transcribe_calls)) :
                               TranscribedChunks(transcribe_calls)[n] = put_log[j].id)
    /\ [][ \A w \in 1..Len(workers) :
             ( /\ audio_queue # << >>
               /\ audio_queue' = Tail(audio_queue)
               /\ Head(audio_queue) # EndSentinel
               /\ workers'[w] # workers[w] )
             => LET held == Append(workers[w].buffer, Head(audio_queue)) IN
                IF BufferSize(held) > 3
                THEN /\ transcribe_calls' =
                          Append(transcribe_calls, [worker |-> w, audio |-> ChunkIds(held)])
                     /\ workers'[w].pc = "transcribe"
                ELSE /\ transcribe_calls' = transcribe_calls
                     /\ workers'[w] = [pc |-> "loop", buffer |-> held]
         ]_vars
    /\ [][ \A w \in 1..Len(workers) :
             (workers[w].pc = "transcribe" /\ workers'[w].pc # "transcribe")
             => workers'[w].buffer = << >>
         ]_vars

\* C35 witness: chunks of 1 s and 2 s were put and stayed in the buffer
\* (3 s in all) until the worker took the end sentinel and handed both
\* over in one call
C35_Witness ==
    /\ ~stop_called
    /\ Len(put_log) = 3
    /\ put_log[1].size = 1
    /\ put_log[2].size = 2
    /\ put_log[3] = EndSentinel
    /\ audio_queue = << >>
    /\ transcribe_calls = << [worker |-> 1, audio |-> << 1, 2 >>] >>

\* C36: at most one worker thread of a stream is alive at any time.
C36_AtMostOneWorker ==
    Cardinality(AliveWorkers) <= 1

(************************* claims: POST /transcribe *************************)
\* C40: when a POST /transcribe request has completed, with a success or
\* with an error response, the temporary file in which the handler saved
\* the upload does not exist any more.
C40_TempFileRemoved ==
    \A r \in 1..Len(requests) :
        (requests[r].pc = "done" /\ requests[r].temp_file_path # Unbound)
        => requests[r].temp_file_path \notin temp_files

(**************************** claims: /ws/stream ****************************)
\* C37: every connection whose handler is in its receive loop is
\* registered under its client_id in active_connections with its own
\* websocket and in streaming_transcribers with its own model; the exit
\* of another handler therefore removes none of its entries. This is to
\* hold also for two connections that use the same client_id.
C37_OwnEntriesRegistered ==
    \A c \in 1..Len(connections) :
        connections[c].pc = "receive"
        => /\ connections[c].client_id \in DOMAIN active_connections
           /\ active_connections[connections[c].client_id] = c
           /\ connections[c].client_id \in DOMAIN streaming_transcribers
           /\ streaming_transcribers[connections[c].client_id].model = c

\* the final_result messages sent to connection c
FinalResultsSent(c) ==
    Cardinality({ k \in 1..Len(connections[c].sent) : connections[c].sent[k] = FinalResult })

EndOfAudioReceived(c) ==
    \E k \in 1..Len(connections[c].received) : connections[c].received[k] = "END_OF_AUDIO"

\* C38: a connection is sent at most one final_result, only after its
\* END_OF_AUDIO and as its last message; when END_OF_AUDIO has been
\* received from a client that is still connected, exactly one
\* final_result has been sent, the receive loop has been left with
\* END_OF_AUDIO as the last message taken, and if the processing of the
\* buffered audio failed an error message is the one before final_result.
\* Once final_result is sent nothing more is sent or received.
C38_FinalResultAfterEnd ==
    /\ [](\A c \in 1..Len(connections) :
            LET con == connections[c] IN
            /\ FinalResultsSent(c) <= 1
            /\ FinalResultsSent(c) = 1
                 => /\ EndOfAudioReceived(c)
                    /\ con.sent[Len(con.sent)] = FinalResult
            /\ (EndOfAudioReceived(c) /\ con.connected)
                 => /\ FinalResultsSent(c) = 1
                    /\ con.pc = "closed"
                    /\ con.received[Len(con.received)] = "END_OF_AUDIO"
                    /\ con.outcome = "error"
                         => /\ Len(con.sent) >= 2
                            /\ con.sent[Len(con.sent) - 1] = ErrorMessage)
    /\ [][ \A c \in 1..Len(connections) :
             FinalResultsSent(c) = 1
             => /\ connections'[c].sent = connections[c].sent
                /\ connections'[c].received = connections[c].received
         ]_vars

\* C38 witness: a chunk gave a result, then END_OF_AUDIO came, the
\* processing of the buffer failed and error and final_result were sent
C38_Witness ==
    \E c \in 1..Len(connections) :
        /\ connections[c].received = << "bytes", "END_OF_AUDIO" >>
        /\ connections[c].connected
        /\ connections[c].outcome = "error"
        /\ connections[c].sent = << InfoMessage, StreamingResult(<< 1 >>), ErrorMessage,
                                    FinalResult >>

\* C39: every chunk of audio that a connection received is passed to the
\* VAD iterator once: no chunk is passed twice (not by END_OF_AUDIO, not
\* after a RESET), and every chunk kept in audio_buffer has been passed.
C39_AudioProcessedOnce ==
    \A c \in 1..Len(connections) :
        LET fed == connections[c].fed IN
        /\ \A i, j \in 1..Len(fed) : i # j => fed[i] # fed[j]
        /\ \A k \in 1..Len(connections[c].audio_buffer) :
              \E i \in 1..Len(fed) : fed[i] = connections[c].audio_buffer[k]

=============================================================================
